---- MODULE Spec2Model ----
(***************************************************************************)
(* Submission intake pipeline of the anonymous channel relay.              *)
(*                                                                         *)
(* The specifications share the variables below:                          *)
(*   Spec        the submit handler that posts and then edits in the       *)
(*               channel-assigned identifier (netlify/functions/config.ts) *)
(*   SpecLegacy  the earlier submit handler that reads the last published  *)
(*               cu-<N> and posts with cu-<N+1> (netlify/functions/        *)
(*               submit.ts)                                                *)
(*   SpecVerify  the rate-limit token functions sign/verify applied to     *)
(*               tokens and clock values drawn from bounded sets           *)
(*   SpecModeration  the moderation check basicModeration applied to texts *)
(*               drawn from a bounded set                                  *)
(*   SpecClassify  the attachment checks of the submit handler applied to  *)
(*               attachments drawn from a bounded set                      *)
(*   SpecCaptcha one request to the submit handler of Spec in every        *)
(*               captcha mode, its input kept for the record               *)
(*   SpecPreview one request to a preview handler (netlify/functions/      *)
(*               preview.ts, and the later one of submit.ts)               *)
(*   SpecWindow  one submission under every rate-limit setting             *)
(*   SpecRace    two requests of one client to the submit handler          *)
(*   SpecClient  the captcha token handling of the web client (web/src/ui/ *)
(*               App.tsx)                                                  *)
(*                                                                         *)
(* Strings are sequences of character tokens.  A token is one character,   *)
(* except for the few multi-character tokens the handlers look for as a    *)
(* unit ("cu-", "http://", "www.", a banned term, an HTML entity).         *)
(***************************************************************************)
EXTENDS Integers, Sequences, FiniteSets, TLC

VARIABLES
    now,      \* Date.now(), in milliseconds
    env,      \* process.env: the configuration of the deployment
    chan,     \* the channel: chan[i] is the message with identifier i
    req,      \* the invocations of the submit handler
    jar,      \* the client's sub_token cookie
    deletes,  \* messages deleted from the channel so far
    vtok,     \* SpecVerify: the token handed to verify
    vres,     \* SpecVerify: what verify answered
    seen,     \* SpecCaptcha: the input of the request that arrived
    mtext,    \* SpecModeration: the text handed to basicModeration
    mres,     \* SpecModeration: what basicModeration returned
    cfile,    \* SpecClassify: the attachment handed to the file checks
    cres,     \* SpecClassify: what the file checks decided
    penv,     \* SpecPreview: the preview handler deployed and its configuration
    pv,       \* SpecPreview: the invocation of the preview handler
    scratch,  \* SpecPreview: the private chat messages are forwarded to
    cl,       \* SpecClient: the captcha state of the web client
    conf      \* SpecWindow: the response to GET /config

vars == <<now, env, chan, req, jar, deletes, vtok, vres, seen, mtext, mres, cfile, cres,
         penv, pv, scratch, cl, conf>>

----------------------------------------------------------------------------
(* Bounds of the model *)

\* requests handled concurrently, in the order of their arrival
ReqOrder == <<"r1", "r2">>
Reqs == {ReqOrder[i] : i \in 1..Len(ReqOrder)}

\* clock: Epoch0Ms + k * TickMs for k in 0..MaxTicks (Date.now() is in ms)
Epoch0Ms == 11500
TickMs == 500
MaxTicks == 3

\* messages an administrator of the channel may delete during a behaviour
MaxDeletes == 1

----------------------------------------------------------------------------
(* Configuration (process.env) *)

\* RATE_LIMIT_SECONDS as configured for the deployment under check
RateLimitSecondsEnv == 1

MAX_ATTACHMENT_SIZE_MB == 6

----------------------------------------------------------------------------
(* Strings *)

Digits == <<"0", "1", "2", "3", "4", "5", "6", "7", "8", "9">>

IsDigit(c) == \E i \in 1..10 : Digits[i] = c

DigitVal(c) == (CHOOSE i \in 1..10 : Digits[i] = c) - 1

\* String(n) for a non-negative integer
RECURSIVE Dec(_)
Dec(n) == IF n < 10 THEN <<Digits[n + 1]>>
          ELSE Dec(n \div 10) \o <<Digits[(n % 10) + 1]>>

\* length of the run of digits of s that starts at position i
RECURSIVE DigitRun(_, _)
DigitRun(s, i) == IF i <= Len(s) /\ IsDigit(s[i]) THEN 1 + DigitRun(s, i + 1) ELSE 0

\* value of the decimal numeral s[i..j]
RECURSIVE NumVal(_, _, _)
NumVal(s, i, j) == IF j < i THEN 0 ELSE NumVal(s, i, j - 1) * 10 + DigitVal(s[j])

NaN == 0 - 1

\* parseInt(s, 10): the leading run of digits, NaN when there is none
ParseInt(s) == LET n == DigitRun(s, 1) IN IF n = 0 THEN NaN ELSE NumVal(s, 1, n)

EntityOf(c) == IF c = "&" THEN "&amp;" ELSE IF c = "<" THEN "&lt;"
               ELSE IF c = ">" THEN "&gt;" ELSE c

sanitize(text) == [i \in 1..Len(text) |-> EntityOf(text[i])]

\* what the channel displays for a text sent with parse_mode HTML
CharOf(c) == IF c = "&amp;" THEN "&" ELSE IF c = "&lt;" THEN "<"
             ELSE IF c = "&gt;" THEN ">" ELSE c

RenderHtml(text) == [i \in 1..Len(text) |-> CharOf(text[i])]

\* `cu-${id}`
CuPrefix(id) == <<"cu-">> \o Dec(id)

Sep == <<"LF", "LF">>

\* captionBase ? `cu-${id}\n\n${captionBase}` : `cu-${id}`
FinalTextOffByOne(id, captionBase) ==
    IF captionBase # <<>> THEN CuPrefix(id + 1) \o Sep \o captionBase ELSE CuPrefix(id + 1)
FinalText(id, captionBase) ==
    IF captionBase # <<>> THEN CuPrefix(id) \o Sep \o captionBase ELSE CuPrefix(id)

\* the number N of a leading cu-<N> of a text, NaN when the text has none
ShownId(text) ==
    IF Len(text) >= 2 /\ text[1] = "cu-" /\ DigitRun(text, 2) > 0
    THEN NumVal(text, 2, 1 + DigitRun(text, 2)) ELSE NaN

----------------------------------------------------------------------------
(* The rate-limit window *)

\* a setting of process.env that is not set (or is the empty string)
Unset == <<>>

\* parseInt(process.env.X || fallback, 10)
IntSetting(setting, fallback) == ParseInt(IF setting = Unset THEN fallback ELSE setting)

\* RATE_WINDOW_SECONDS for the settings RATE_LIMIT_SECONDS and
\* RATE_LIMIT_MINUTES: the seconds if they are a number, else the minutes * 60
RateWindowSeconds(seconds, minutes) ==
    IF IntSetting(seconds, <<"1", "0">>) # NaN THEN IntSetting(seconds, <<"1", "0">>)
    ELSE IntSetting(minutes, <<"1">>) * 60

RATE_WINDOW_SECONDS == RateWindowSeconds(Dec(RateLimitSecondsEnv), Unset)

\* rate_limit_seconds of the body of GET /config, computed by its own copy of
\* the settings
ConfigRateLimitSeconds(seconds, minutes) ==
    IF IntSetting(seconds, <<"1", "0">>) # NaN THEN IntSetting(seconds, <<"1", "0">>)
    ELSE IntSetting(minutes, <<"1">>) * 60

\* the response to GET /config: status and rate_limit_seconds of its body
ConfigResponse(seconds, minutes) ==
    [status |-> 200, rate_limit_seconds |-> ConfigRateLimitSeconds(seconds, minutes)]

NoConfig == [status |-> 0, rate_limit_seconds |-> 0]

\* RATE_LIMIT_MINUTES * 60, the window of verify in the earlier submit handler
LegacyWindowSeconds(minutes) == IntSetting(minutes, <<"1">>) * 60

----------------------------------------------------------------------------
(* TokenSigner *)

SIGNING_SECRET == "secret"

\* HMAC-SHA256 keyed by the secret, base64url: a string determined by key and
\* message, different for different messages
Hmac(key, msg) == <<key>> \o msg

\* `${ts}.${sig}`: a token is the sequence of its "."-separated segments
sign(ts) == <<Dec(ts), Hmac(SIGNING_SECRET, Dec(ts))>>

Segment(token, i) == IF i <= Len(token) THEN token[i] ELSE <<>>

verifyMinutes(token, nowMs, window) ==
    LET ts == ParseInt(Segment(token, 1))
        sig == Segment(token, 2)
    IN IF ts = NaN \/ ts = 0 \/ sig = <<>> THEN "bad"
       ELSE IF sign(ts) # token THEN "sig"
       ELSE IF nowMs - ts * 1000 < window * 60 * 1000 THEN "rate"
       ELSE "ok"

verifyRateFirst(token, nowMs, window) ==
    LET ts == ParseInt(Segment(token, 1))
        sig == Segment(token, 2)
    IN IF ts = NaN \/ ts = 0 \/ sig = <<>> THEN "bad"
       ELSE IF nowMs - ts * 1000 < window * 1000 THEN "rate"
       ELSE IF sign(ts) # token THEN "sig"
       ELSE "ok"

verifyInclusive(token, nowMs, window) ==
    LET ts == ParseInt(Segment(token, 1))
        sig == Segment(token, 2)
    IN IF ts = NaN \/ ts = 0 \/ sig = <<>> THEN "bad"
       ELSE IF sign(ts) # token THEN "sig"
       ELSE IF nowMs - ts * 1000 <= window * 1000 THEN "rate"
       ELSE "ok"

\* verify(token) at clock nowMs (Date.now()) with the given window in seconds:
\* "ok", or why not: "bad", "sig", "rate"
verify(token, nowMs, window) ==
    LET ts == ParseInt(Segment(token, 1))
        sig == Segment(token, 2)
    IN IF ts = NaN \/ ts = 0 \/ sig = <<>> THEN "bad"
       ELSE IF sign(ts) # token THEN "sig"
       ELSE IF nowMs - ts * 1000 < window * 1000 THEN "rate"
       ELSE "ok"

\* Math.floor(Date.now() / 1000)
NowSeconds(nowMs) == nowMs \div 1000

NoCookie == <<>>

\* the token with the byte at position i of its signature segment replaced by b
TamperAt(token, i, b) == [token EXCEPT ![2] = [token[2] EXCEPT ![i] = b]]

----------------------------------------------------------------------------
(* ModerationFilter *)

\* the banned terms (Russian words in the source, transliterated here)
BadWords == {"suicid", "bomba", "terror", "nasilie", "ekstremizm"}

\* number of characters (UTF-16 code units) of a token; "a*3995", "a*3999" and
\* "a*197" are runs of that many letters a, "I-dot" is the capital I with a dot
\* above (U+0130), "&a", "&am", "&amp", "&l", "&lt", "&g", "&gt" are the
\* beginnings of an entity, "Foto" ... "Golosovoe" the labels of the preview
\* (Russian words in the source, transliterated here)
TokLen(c) == IF c = "cu-" THEN 3 ELSE IF c \in {"http://", "HTTP://"} THEN 7
             ELSE IF c \in {"https://", "HTTPS://"} THEN 8
             ELSE IF c \in {"www.", "WWW."} THEN 4
             ELSE IF c \in {"suicid", "terror"} THEN 6 ELSE IF c \in {"bomba", "BOMBA"} THEN 5
             ELSE IF c = "nasilie" THEN 7 ELSE IF c = "ekstremizm" THEN 10
             ELSE IF c = "&amp;" THEN 5 ELSE IF c \in {"&lt;", "&gt;"} THEN 4
             ELSE IF c = "a*3995" THEN 3995 ELSE IF c = "a*3999" THEN 3999
             ELSE IF c = "a*197" THEN 197
             ELSE IF c \in {"&a", "&l", "&g"} THEN 2 ELSE IF c \in {"&am", "&lt", "&gt"} THEN 3
             ELSE IF c = "&amp" THEN 4 ELSE IF c = "Foto" THEN 4
             ELSE IF c \in {"Audio", "Video"} THEN 5 ELSE IF c = "Stiker" THEN 6
             ELSE IF c = "Dokument" THEN 8 ELSE IF c = "Golosovoe" THEN 9 ELSE 1

RECURSIVE CharLen(_)
CharLen(text) == IF text = <<>> THEN 0 ELSE TokLen(Head(text)) + CharLen(Tail(text))

\* String.prototype.toLowerCase for one token: the capital I with a dot above
\* becomes two code units, i and the combining dot above (U+0069 U+0307)
LowerOf(c) == IF c = "BOMBA" THEN <<"bomba">> ELSE IF c = "HTTP://" THEN <<"http://">>
              ELSE IF c = "HTTPS://" THEN <<"https://">> ELSE IF c = "WWW." THEN <<"www.">>
              ELSE IF c = "A" THEN <<"a">>
              ELSE IF c = "I-dot" THEN <<"i", "dot-above">> ELSE <<c>>

\* (text || '').toLowerCase()
RECURSIVE toLowerCase(_)
toLowerCase(text) ==
    IF text = <<>> THEN <<>> ELSE LowerOf(Head(text)) \o toLowerCase(Tail(text))

Count(text, S) == Cardinality({i \in 1..Len(text) : text[i] \in S})

MaxTextLen == 4000
MaxLinks == 2

\* the reason of the rejection, "none" when the text passes
basicModeration(text) ==
    LET t == toLowerCase(text)
    IN IF CharLen(t) > MaxTextLen THEN "too-long"
       ELSE IF \E i \in 1..Len(t) : t[i] \in BadWords THEN "banned-words"
       ELSE IF Count(t, {"http://", "https://"}) + Count(t, {"www."}) > MaxLinks
            THEN "too-many-links"
       ELSE "none"

----------------------------------------------------------------------------
(* AttachmentClassifier *)

StartsWith(s, p) == Len(p) <= Len(s) /\ SubSeq(s, 1, Len(p)) = p

NoMime == <<>>

NoFile == [size |-> 0 - 1, declared |-> NoMime, sniffed |-> NoMime]

MaxBytes == MAX_ATTACHMENT_SIZE_MB * 1024 * 1024

Blocked == {<<"application/", "x-msdownload">>, <<"application/", "x-sh">>,
            <<"application/", "java-archive">>}

\* if (sig?.mime) mime = sig.mime
ResolvedMimeDeclaredFirst(file) ==
    IF file.declared # NoMime THEN file.declared ELSE file.sniffed
ResolvedMime(file) == IF file.sniffed # NoMime THEN file.sniffed ELSE file.declared

\* the reason of the rejection, "none" when the file passes (or there is none)
ClassifyFileDeclaredVideo(file, rejectVideo) ==
    IF file = NoFile THEN "none"
    ELSE IF file.size = 0 THEN "empty-file"
    ELSE IF file.size > MaxBytes THEN "size-exceeded"
    ELSE IF \E p \in Blocked : StartsWith(ResolvedMime(file), p) THEN "type-forbidden"
    ELSE IF rejectVideo /\ StartsWith(file.declared, <<"video/">>) THEN "video-unsupported"
    ELSE "none"
ClassifyFileInclusive(file, rejectVideo) ==
    IF file = NoFile THEN "none"
    ELSE IF file.size = 0 THEN "empty-file"
    ELSE IF file.size >= MaxBytes THEN "size-exceeded"
    ELSE IF \E p \in Blocked : StartsWith(ResolvedMime(file), p) THEN "type-forbidden"
    ELSE IF rejectVideo /\ StartsWith(ResolvedMime(file), <<"video/">>) THEN "video-unsupported"
    ELSE "none"
ClassifyFile(file, rejectVideo) ==
    IF file = NoFile THEN "none"
    ELSE IF file.size = 0 THEN "empty-file"
    ELSE IF file.size > MaxBytes THEN "size-exceeded"
    ELSE IF \E p \in Blocked : StartsWith(ResolvedMime(file), p) THEN "type-forbidden"
    ELSE IF rejectVideo /\ StartsWith(ResolvedMime(file), <<"video/">>) THEN "video-unsupported"
    ELSE "none"

\* the channel method that posts the submission
PostMethodNoAudio(file) ==
    IF file = NoFile THEN "sendMessage"
    ELSE IF StartsWith(ResolvedMime(file), <<"image/">>) THEN "sendPhoto"
    ELSE IF StartsWith(ResolvedMime(file), <<"video/">>) THEN "sendVideo"
    ELSE "sendDocument"
PostMethod(file) ==
    IF file = NoFile THEN "sendMessage"
    ELSE IF StartsWith(ResolvedMime(file), <<"image/">>) THEN "sendPhoto"
    ELSE IF StartsWith(ResolvedMime(file), <<"audio/">>) THEN "sendAudio"
    ELSE IF StartsWith(ResolvedMime(file), <<"video/">>) THEN "sendVideo"
    ELSE "sendDocument"

\* the file checks have not decided yet
NoDecision == [reason |-> "pending", method |-> ""]

\* the file checks of the handler and the posting primitive it goes on to use
\* ("" when the file is rejected)
Decide(file) ==
    [reason |-> ClassifyFile(file, TRUE),
     method |-> IF ClassifyFile(file, TRUE) = "none" THEN PostMethod(file) ELSE ""]

----------------------------------------------------------------------------
(* ReplyResolver: the reference to a prior public identifier *)

Undefined == 0 - 1

\* replyRaw.match(/cu[-: ]?(\d+)/i): the number after the first "cu-" that
\* digits follow, Undefined when there is no match
RECURSIVE ReplyMatchFrom(_, _)
ReplyMatchFrom(raw, i) ==
    IF i > Len(raw) THEN Undefined
    ELSE IF raw[i] = "cu-" /\ DigitRun(raw, i + 1) > 0
         THEN NumVal(raw, i + 1, i + DigitRun(raw, i + 1))
    ELSE ReplyMatchFrom(raw, i + 1)

ReplyToMessageId(raw) == ReplyMatchFrom(raw, 1)

----------------------------------------------------------------------------
(* CaptchaVerifier *)

\* what verifyCaptcha does before any outbound call: its result ("ok",
\* "missing-token", "misconfigured") or "call" when it asks the provider
CaptchaPlanAlwaysCalls(e, hasToken) ==
    IF e.CAPTCHA_MODE = "none" THEN "ok"
    ELSE IF e.CAPTCHA_MODE = "turnstile" /\ e.TURNSTILE_SECRET THEN "call"
    ELSE IF e.CAPTCHA_MODE = "hcaptcha" /\ e.HCAPTCHA_SECRET THEN "call"
    ELSE IF ~hasToken THEN "missing-token"
    ELSE "misconfigured"
CaptchaPlan(e, hasToken) ==
    IF e.CAPTCHA_MODE = "none" THEN "ok"
    ELSE IF ~hasToken THEN "missing-token"
    ELSE IF e.CAPTCHA_MODE = "turnstile" /\ e.TURNSTILE_SECRET THEN "call"
    ELSE IF e.CAPTCHA_MODE = "hcaptcha" /\ e.HCAPTCHA_SECRET THEN "call"
    ELSE "misconfigured"

\* what the siteverify call can bring back: a body with success true, a body
\* without it, a body that is no JSON (j = {}), or no answer at all (fetch
\* rejects)
ProviderAnswers == {"success", "no-success", "unparsable", "unreachable"}

\* the call has not been answered yet
Pending == [http |-> 0, jok |-> FALSE, desc |-> "pending"]

\* the answer of the provider as a call's answer
ProviderAnswer(out) ==
    [http |-> IF out = "unreachable" THEN 0 ELSE 200, jok |-> out = "success", desc |-> out]

\* verifyCaptcha after its call: { ok: !!j.success }, or "throws" when the
\* awaited fetch rejects
CaptchaResult(out) ==
    IF out = "unreachable" THEN "throws" ELSE IF out = "success" THEN "ok" ELSE "not-ok"

----------------------------------------------------------------------------
(* Responses of the handler *)

NoResp == [status |-> 0, body |-> "", cookie |-> NoCookie]

Resp(status, body) == [status |-> status, body |-> body, cookie |-> NoCookie]

\* the response to a failed captcha, with the payload only when DEBUG is set
CaptchaFailed(e) ==
    IF e.DEBUG THEN Resp(400, "{error:captcha_failed}") ELSE Resp(400, "Captcha failed")

\* the response with set-cookie sub_token=sign(Math.floor(Date.now() / 1000))
AcceptedBackdated(nowMs) ==
    [status |-> 200, body |-> "{ok:true}", cookie |-> sign(NowSeconds(nowMs) - 1)]
Accepted(nowMs) == [status |-> 200, body |-> "{ok:true}", cookie |-> sign(NowSeconds(nowMs))]

----------------------------------------------------------------------------
(* The channel (Telegram Bot API) as the handler sees it *)

NoMsg == [kind |-> "", method |-> "", status |-> 0, desc |-> ""]

\* an answer of the channel: HTTP status, and the ok and description of its body
Answer(http, jok, desc) == [http |-> http, jok |-> jok, desc |-> desc]

AnswerOk == Answer(200, TRUE, "")

ReplyMissingDesc == "Bad Request: reply message not found"

\* the answers by which the channel refuses a call whatever its arguments
GenericFailures == {Answer(502, FALSE, "")}

\* the answers by which the channel refuses a post whose reply target is missing
ReplyMissingFailures ==
    {Answer(400, FALSE, ReplyMissingDesc), Answer(200, FALSE, ReplyMissingDesc)}

\* tgApi: the message of the Error it throws for the answer, NoMsg when it
\* returns j.result
tgApiStatusOnly(method, a) ==
    IF a.http # 200
    THEN [kind |-> "status", method |-> method, status |-> a.http, desc |-> ""]
    ELSE NoMsg
tgApi(method, a) ==
    IF a.http # 200
    THEN [kind |-> "status", method |-> method, status |-> a.http, desc |-> ""]
    ELSE IF ~a.jok THEN [kind |-> "json", method |-> method, status |-> 0, desc |-> a.desc]
    ELSE NoMsg

\* /reply message not found/i.test(msg) || /REPLY_MESSAGE_NOT_FOUND/i.test(msg)
IsReplyNotFound(msg) ==
    msg.kind = "json" /\ msg.desc \in {ReplyMissingDesc, "REPLY_MESSAGE_NOT_FOUND"}

\* the catch block of the handler
CatchResponseSwallows(msg) ==
    IF IsReplyNotFound(msg) THEN Resp(400, "{error:reply_not_found}")
    ELSE [status |-> 200, body |-> "{ok:true}", cookie |-> sign(1)]

CatchResponse(msg) ==
    IF IsReplyNotFound(msg) THEN Resp(400, "{error:reply_not_found}")
    ELSE Resp(502, "Telegram error")

Exists(ch, i) == i \in 1..Len(ch) /\ ~ch[i].deleted

\* the text the channel keeps for a text sent with parse_mode HTML
Stored(text) == RenderHtml(text)

----------------------------------------------------------------------------
(* Requests *)

\* the submitted text, trimmed
Texts == {<<>>, <<"<", "a">>, <<"cu-", "7">>, <<"bomba">>,
          <<"http://", "www.", "https://">>}

Png == <<"image/", "png">>
Pdf == <<"application/", "pdf">>
Mp4 == <<"video/", "mp4">>

Files == {NoFile,
          [size |-> 1, declared |-> Pdf, sniffed |-> Png],
          [size |-> 1, declared |-> Png, sniffed |-> Mp4],
          [size |-> 0, declared |-> Png, sniffed |-> NoMime],
          [size |-> MaxBytes + 1, declared |-> Png, sniffed |-> Png]}

\* the reply_to field: none, the message already in the channel, an
\* identifier the channel has not assigned
ReplyRaws == {<<>>, <<"cu-", "1">>, <<"cu-", "9">>}

\* the cookies a client can present: none, the one it holds, the one it holds
\* with a byte of the signature changed, one without a signature segment
Cookies(held) ==
    {NoCookie, <<<<"x">>>>} \cup
    (IF held = NoCookie THEN {} ELSE {held, TamperAt(held, Len(held[2]), "x")})

Inputs(held) ==
    [httpMethod : {"POST", "GET"}, honeypot : BOOLEAN, token : BOOLEAN,
     cookie : Cookies(held), text : Texts, file : Files, replyRaw : ReplyRaws]

NoInp == [httpMethod |-> "", honeypot |-> FALSE, token |-> FALSE, cookie |-> NoCookie,
          text |-> <<>>, file |-> NoFile, replyRaw |-> <<>>]

Idle == [pc |-> "idle", inp |-> NoInp, text |-> <<>>, method |-> "",
         reply |-> Undefined, id |-> Undefined, cu |-> Undefined,
         resp |-> NoResp, calls |-> <<>>]

\* a call to the channel: method, message_id, text or caption, reply_to_message_id,
\* and the channel's answer
Call(method, target, text, reply, a) ==
    [method |-> method, target |-> target, text |-> text, reply |-> reply, answer |-> a]

Done(q, resp) == [q EXCEPT !.pc = "done", !.inp = NoInp, !.resp = resp]

\* the handler up to the captcha check: its response, NoResp when it goes on
EarlyResponseHoneypotFirst(inp, e) ==
    IF inp.httpMethod # "POST" THEN Resp(405, "Method Not Allowed")
    ELSE IF inp.honeypot THEN Resp(400, "Invalid form")
    ELSE IF ~e.CONFIGURED THEN Resp(500, "Server not configured")
    ELSE NoResp
EarlyResponseNoHoneypot(inp, e) ==
    IF inp.httpMethod # "POST" THEN Resp(405, "Method Not Allowed")
    ELSE IF ~e.CONFIGURED THEN Resp(500, "Server not configured")
    ELSE NoResp
EarlyResponse(inp, e) ==
    IF inp.httpMethod # "POST" THEN Resp(405, "Method Not Allowed")
    ELSE IF ~e.CONFIGURED THEN Resp(500, "Server not configured")
    ELSE IF inp.honeypot THEN Resp(400, "Invalid form")
    ELSE NoResp

\* the handler from the rate check to the attachment checks: its response,
\* NoResp when it goes on to post
GateResponseAnyToken(inp, nowMs, window, rejectVideo) ==
    IF inp.cookie # NoCookie /\ verify(inp.cookie, nowMs, window) # "ok"
    THEN Resp(429, "Too often")
    ELSE IF basicModeration(inp.text) # "none" THEN Resp(400, basicModeration(inp.text))
    ELSE IF ClassifyFile(inp.file, rejectVideo) # "none"
         THEN Resp(400, ClassifyFile(inp.file, rejectVideo))
    ELSE NoResp
GateResponseModerationFirst(inp, nowMs, window, rejectVideo) ==
    IF basicModeration(inp.text) # "none" THEN Resp(400, basicModeration(inp.text))
    ELSE IF inp.cookie # NoCookie /\ verify(inp.cookie, nowMs, window) = "rate"
    THEN Resp(429, "Too often")
    ELSE IF ClassifyFile(inp.file, rejectVideo) # "none"
         THEN Resp(400, ClassifyFile(inp.file, rejectVideo))
    ELSE NoResp
GateResponse(inp, nowMs, window, rejectVideo) ==
    IF inp.cookie # NoCookie /\ verify(inp.cookie, nowMs, window) = "rate"
    THEN Resp(429, "Too often")
    ELSE IF basicModeration(inp.text) # "none" THEN Resp(400, basicModeration(inp.text))
    ELSE IF ClassifyFile(inp.file, rejectVideo) # "none"
         THEN Resp(400, ClassifyFile(inp.file, rejectVideo))
    ELSE NoResp

\* the request after its captcha was found ok, under the given window:
\* rejected by a gate, or ready to post
AfterCaptchaInMinutes(q, inp, nowMs, window) ==
    LET g == GateResponse(inp, nowMs, window * 60, TRUE)
    IN IF g # NoResp THEN Done(q, g)
       ELSE [q EXCEPT !.pc = "post", !.inp = NoInp, !.text = inp.text,
                      !.method = PostMethod(inp.file),
                      !.reply = ReplyToMessageId(inp.replyRaw)]
AfterCaptchaIn(q, inp, nowMs, window) ==
    LET g == GateResponse(inp, nowMs, window, TRUE)
    IN IF g # NoResp THEN Done(q, g)
       ELSE [q EXCEPT !.pc = "post", !.inp = NoInp, !.text = inp.text,
                      !.method = PostMethod(inp.file),
                      !.reply = ReplyToMessageId(inp.replyRaw)]

AfterCaptcha(q, inp, nowMs) == AfterCaptchaIn(q, inp, nowMs, RATE_WINDOW_SECONDS)

\* the request from its arrival to its first outbound call
Arrive(q, inp, nowMs, e) ==
    IF EarlyResponse(inp, e) # NoResp THEN Done(q, EarlyResponse(inp, e))
    ELSE IF CaptchaPlan(e, inp.token) = "ok" THEN AfterCaptcha(q, inp, nowMs)
    ELSE IF CaptchaPlan(e, inp.token) = "call"
         THEN [q EXCEPT !.pc = "captcha", !.inp = inp,
                        !.calls = Append(@, Call("siteverify", Undefined, <<>>,
                                                 Undefined, Pending))]
    ELSE Done(q, CaptchaFailed(e))

----------------------------------------------------------------------------
(* PreviewFormatter: the text a preview returns *)

IsSpace(c) == c \in {"LF", " "}

\* length of the run of whitespace of s that starts at position i
RECURSIVE SpaceRun(_, _)
SpaceRun(s, i) == IF i <= Len(s) /\ IsSpace(s[i]) THEN 1 + SpaceRun(s, i + 1) ELSE 0

\* text.replace(/^\s*cu-\d+\s*\n?\n?/i, '')
StripCu(text) ==
    LET i == 1 + SpaceRun(text, 1)
        d == DigitRun(text, i + 1)
        j == i + 1 + d
    IN IF i <= Len(text) /\ text[i] \in {"cu-", "CU-"} /\ d > 0
       THEN SubSeq(text, j + SpaceRun(text, j), Len(text))
       ELSE text

\* the first k characters of a token of more than k characters
CutTok(c, k) ==
    IF c = "&amp;" THEN <<"&", "&a", "&am", "&amp">>[k]
    ELSE IF c = "&lt;" THEN <<"&", "&l", "&lt">>[k]
    ELSE IF c = "&gt;" THEN <<"&", "&g", "&gt">>[k]
    ELSE "cut"

\* text.slice(0, n)
RECURSIVE Slice(_, _)
Slice(text, n) ==
    IF text = <<>> \/ n <= 0 THEN <<>>
    ELSE IF TokLen(Head(text)) <= n
         THEN <<Head(text)>> \o Slice(Tail(text), n - TokLen(Head(text)))
    ELSE <<CutTok(Head(text), n)>>

PreviewLimit == 200

\* the label of the kind of a message, by the method that posted it
KindLabel(method) ==
    IF method = "sendPhoto" THEN <<"Foto">> ELSE IF method = "sendAudio" THEN <<"Audio">>
    ELSE IF method = "sendVoice" THEN <<"Golosovoe">>
    ELSE IF method = "sendDocument" THEN <<"Dokument">>
    ELSE IF method = "sendSticker" THEN <<"Stiker">>
    ELSE IF method = "sendVideo" THEN <<"Video">> ELSE <<>>

\* preview = kind ? `${kind}${text ? `\n${text}` : ''}` : text, text stripped
PreviewOf(m) ==
    LET text == StripCu(m.text)
        kind == KindLabel(m.method)
    IN IF kind = <<>> THEN text
       ELSE IF text = <<>> THEN kind ELSE kind \o <<"LF">> \o text

\* sanitize(preview).slice(0, 200) of the later handler
PreviewText(m) == Slice(sanitize(PreviewOf(m)), PreviewLimit)

\* sanitize(text) of preview.ts
PreviewTextOlder(m) == sanitize(m.text)

\* String(idRaw).match(/(\d+)/), then parseInt: the first run of digits,
\* Undefined when there is none
RECURSIVE FirstNumber(_, _)
FirstNumber(raw, i) ==
    IF i > Len(raw) THEN Undefined
    ELSE IF IsDigit(raw[i]) THEN NumVal(raw, i, i + DigitRun(raw, i) - 1)
    ELSE FirstNumber(raw, i + 1)

\* a response of a preview handler: status, ok of the JSON body, its text
PvResp(status, ok, text) == [status |-> status, ok |-> ok, text |-> text]

NotOk == PvResp(200, FALSE, <<>>)

NoPenv == [handler |-> "", chat |-> FALSE]

NoPv == [pc |-> "idle", msgId |-> Undefined, copy |-> Undefined, preview |-> <<>>,
         resp |-> PvResp(0, FALSE, <<>>), calls |-> <<>>]

----------------------------------------------------------------------------
(* The web client's captcha state *)

\* captchaToken (0 for ''), tokenVersionRef, lastUsedTokenVersionRef, the
\* tokens the widget has issued, whether the widget has a challenge running,
\* the position of handleSubmit, the tokens sent to the server so far
NoClient == [token |-> 0, version |-> 0, lastUsed |-> 0 - 1, issued |-> 0,
             refresh |-> FALSE, pc |-> "idle", sent |-> <<>>]

----------------------------------------------------------------------------
(* Actions of the submit handler *)

\* the states in which a request can be after its arrival
Arrivals(held, nowMs, e) == {Arrive(Idle, inp, nowMs, e) : inp \in Inputs(held)}

\* a request arrives with the cookie the client holds (or a forged one)
Start(r) ==
    /\ req[r].pc = "idle"
    /\ \A i \in 1..Len(ReqOrder) :
         ReqOrder[i] = r => \A j \in 1..(i - 1) : req[ReqOrder[j]].pc # "idle"
    /\ \E q \in Arrivals(jar, now, env) : req' = [req EXCEPT ![r] = q]
    /\ UNCHANGED <<now, env, chan, jar, deletes, vtok, vres, seen, mtext, mres, cfile, cres, penv, pv, scratch,
                   cl, conf>>

\* the handler's promise rejects: the request ends without a response of the
\* handler
Failed(q) == [q EXCEPT !.pc = "failed", !.inp = NoInp]

\* the request after the provider's answer out to its siteverify call
AfterProvider(q, out, nowMs, e) ==
    LET q1 == [q EXCEPT !.calls[Len(q.calls)].answer = ProviderAnswer(out)]
    IN IF CaptchaResult(out) = "throws" THEN Failed(q1)
       ELSE IF CaptchaResult(out) = "ok" THEN AfterCaptcha(q1, q1.inp, nowMs)
       ELSE Done(q1, CaptchaFailed(e))

\* the siteverify call of verifyCaptcha comes back
CaptchaReply(r) ==
    /\ req[r].pc = "captcha"
    /\ \E out \in ProviderAnswers :
         req' = [req EXCEPT ![r] = AfterProvider(@, out, now, env)]
    /\ UNCHANGED <<now, env, chan, jar, deletes, vtok, vres, seen, mtext, mres, cfile, cres, penv, pv, scratch,
                   cl, conf>>

\* captionBase
CaptionBase(q) == sanitize(q.text)

\* the text or caption of the post: captionBase || '...' for sendMessage, the
\* caption if there is one for an attachment
PostBody(q) ==
    IF q.method = "sendMessage" /\ CaptionBase(q) = <<>> THEN <<".", ".", ".">>
    ELSE CaptionBase(q)

\* sent.message_id: the identifier the channel assigns to the message it
\* appends to the messages ch
AssignedIdStale(ch) == Len(ch)
AssignedId(ch) == Len(ch) + 1

\* the cookie the client holds after a response
Kept(held, resp) == IF resp.cookie # NoCookie THEN resp.cookie ELSE held

\* the answers the channel can give to the post
PostAnswers(q, ch) ==
    GenericFailures \cup
    (IF q.reply = Undefined \/ Exists(ch, q.reply) THEN {AnswerOk} ELSE ReplyMissingFailures)

\* step 1: tgApi('sendMessage' | 'sendPhoto' | ...), then the id of the result
Post(r) ==
    /\ req[r].pc = "post"
    /\ \E a \in PostAnswers(req[r], chan) :
         LET q == req[r]
             c == Call(q.method, Undefined, PostBody(q), q.reply, a)
             msg == tgApi(q.method, a)
         IN /\ chan' = IF a = AnswerOk
                       THEN Append(chan, [text |-> Stored(PostBody(q)), reply |-> q.reply,
                                          method |-> q.method, owner |-> r, deleted |-> FALSE])
                       ELSE chan
            /\ req' = [req EXCEPT ![r] =
                          IF msg = NoMsg
                          THEN [q EXCEPT !.pc = "edit", !.id = AssignedId(chan),
                                         !.calls = Append(@, c)]
                          ELSE Done([q EXCEPT !.calls = Append(@, c)], CatchResponse(msg))]
            /\ jar' = IF msg = NoMsg THEN jar ELSE Kept(jar, CatchResponse(msg))
    /\ UNCHANGED <<now, env, deletes, vtok, vres, seen, mtext, mres, cfile, cres, penv, pv, scratch,
                   cl, conf>>

EditMethod(q) == IF q.method = "sendMessage" THEN "editMessageText" ELSE "editMessageCaption"

\* the answers the channel can give to the edit
EditAnswers(q, ch) == GenericFailures \cup (IF Exists(ch, q.id) THEN {AnswerOk} ELSE {})

\* step 3: editText / editCaption of the message just posted, then the 200
\* response with the fresh token
Edit(r) ==
    /\ req[r].pc = "edit"
    /\ \E a \in EditAnswers(req[r], chan) :
         LET q == req[r]
             final == FinalText(q.id, CaptionBase(q))
             c == Call(EditMethod(q), q.id, final, Undefined, a)
             msg == tgApi(EditMethod(q), a)
             resp == IF msg = NoMsg THEN Accepted(now) ELSE CatchResponse(msg)
         IN /\ chan' = IF a = AnswerOk
                       THEN [chan EXCEPT ![q.id].text = Stored(final)]
                       ELSE chan
            /\ req' = [req EXCEPT ![r] = Done([q EXCEPT !.calls = Append(@, c)], resp)]
            /\ jar' = Kept(jar, resp)
    /\ UNCHANGED <<now, env, deletes, vtok, vres, seen, mtext, mres, cfile, cres, penv, pv, scratch,
                   cl, conf>>

----------------------------------------------------------------------------
(* Environment *)

Tick ==
    /\ now < Epoch0Ms + MaxTicks * TickMs
    /\ now' = now + TickMs
    /\ UNCHANGED <<env, chan, req, jar, deletes, vtok, vres, seen, mtext, mres, cfile, cres, penv, pv, scratch,
                   cl, conf>>

\* the clock values of a behaviour
Clock == {Epoch0Ms + k * TickMs : k \in 0..MaxTicks}

\* an administrator of the channel deletes a message
DeleteMessage ==
    /\ deletes < MaxDeletes
    /\ \E i \in 1..Len(chan) :
         /\ ~chan[i].deleted
         /\ chan' = [chan EXCEPT ![i].deleted = TRUE]
    /\ deletes' = deletes + 1
    /\ UNCHANGED <<now, env, req, jar, vtok, vres, seen, mtext, mres, cfile, cres, penv, pv, scratch,
                   cl, conf>>

\* CAPTCHA_MODE=none, the mode the deployment starts with; CONFIGURED says that
\* TELEGRAM_BOT_TOKEN, TELEGRAM_CHANNEL_ID and SIGNING_SECRET are all set
Envs == [CAPTCHA_MODE : {"none"}, TURNSTILE_SECRET : {FALSE},
         HCAPTCHA_SECRET : {FALSE}, DEBUG : {FALSE}, CONFIGURED : {TRUE}]

\* the channel holds one earlier submission
Chan0 == <<[text |-> Stored(FinalText(1, <<"a">>)), reply |-> Undefined,
            method |-> "sendMessage", owner |-> "earlier", deleted |-> FALSE]>>

Init ==
    /\ now = Epoch0Ms
    /\ env \in Envs
    /\ chan = Chan0
    /\ req = [r \in Reqs |-> Idle]
    /\ jar = NoCookie
    /\ deletes = 0
    /\ vtok = NoCookie
    /\ vres = "none"
    /\ seen = NoInp
    /\ mtext = <<>>
    /\ mres = "pending"
    /\ cfile = NoFile
    /\ cres = NoDecision
    /\ penv = NoPenv
    /\ pv = NoPv
    /\ scratch = <<>>
    /\ cl = NoClient
    /\ conf = NoConfig

Next ==
    \/ \E r \in Reqs : Start(r)
    \/ \E r \in Reqs : Post(r)
    \/ \E r \in Reqs : Edit(r)
    \/ Tick
    \/ DeleteMessage

Spec == Init /\ [][Next]_vars

\* every CAPTCHA_MODE, with the secret of turnstile or of neither provider,
\* DEBUG set or not, the credentials and the signing secret set or not
EnvsCaptcha == [CAPTCHA_MODE : {"none", "turnstile", "hcaptcha"}, TURNSTILE_SECRET : BOOLEAN,
                HCAPTCHA_SECRET : {FALSE}, DEBUG : BOOLEAN, CONFIGURED : BOOLEAN]

\* the client holds no cookie, or the cookie of a submission accepted in the
\* second of Epoch0Ms
InitCaptcha ==
    /\ now \in Clock
    /\ env \in EnvsCaptcha
    /\ chan = Chan0
    /\ req = [r \in Reqs |-> Idle]
    /\ jar \in {NoCookie, sign(NowSeconds(Epoch0Ms))}
    /\ deletes = 0
    /\ vtok = NoCookie
    /\ vres = "none"
    /\ seen = NoInp
    /\ mtext = <<>>
    /\ mres = "pending"
    /\ cfile = NoFile
    /\ cres = NoDecision
    /\ penv = NoPenv
    /\ pv = NoPv
    /\ scratch = <<>>
    /\ cl = NoClient
    /\ conf = NoConfig

\* the request arrives; its input is kept in seen for the record
Submit(r) ==
    /\ req[r].pc = "idle"
    /\ \E inp \in Inputs(jar) :
         /\ req' = [req EXCEPT ![r] = Arrive(Idle, inp, now, env)]
         /\ seen' = inp
    /\ UNCHANGED <<now, env, chan, jar, deletes, vtok, vres, mtext, mres, cfile, cres, penv, pv, scratch,
                   cl, conf>>

\* one request, handled at one clock value
NextCaptcha ==
    \/ Submit(ReqOrder[1])
    \/ CaptchaReply(ReqOrder[1])
    \/ Post(ReqOrder[1])
    \/ Edit(ReqOrder[1])

SpecCaptcha == InitCaptcha /\ [][NextCaptcha]_vars

----------------------------------------------------------------------------
(* The preview handlers (SpecPreview) *)

\* a call of a preview handler: method, chat_id, message_id, the answer
PvCall(method, chat, target, a) ==
    [method |-> method, chat |-> chat, target |-> target, answer |-> a]

\* chat_id of the forward and of the delete: COUNTER_STORAGE_CHAT_ID ||
\* TELEGRAM_CHANNEL_ID in preview.ts, PREVIEW_CHAT_ID in the later handler
ForwardChat(e) == IF e.chat THEN "scratch" ELSE "channel"

PvDone(q, resp) == [q EXCEPT !.pc = "done", !.resp = resp]

\* the handler up to its first outbound call, for the query value raw
PvArrive(e, raw) ==
    LET id == FirstNumber(raw, 1)
    IN IF id = Undefined THEN PvDone(NoPv, PvResp(400, FALSE, <<>>))
       ELSE IF e.handler = "preview.ts" \/ e.chat
            THEN [NoPv EXCEPT !.pc = "forward", !.msgId = id]
       ELSE [NoPv EXCEPT !.pc = "updates", !.msgId = id]

\* the cu or id parameter of the query: none, no digits, messages of the
\* channel, an identifier the channel has not assigned
PvIdRaws == {<<>>, <<"x">>, <<"cu-", "1">>, <<"2">>, <<"cu-", "3">>, <<"4">>, <<"5">>,
             <<"6">>, <<"9">>}

PreviewStart ==
    /\ pv.pc = "idle"
    /\ \E raw \in PvIdRaws : pv' = PvArrive(penv, raw)
    /\ UNCHANGED <<now, env, chan, req, jar, deletes, vtok, vres, seen, mtext, mres, cfile,
                   cres, penv, scratch, cl, conf>>

\* the answers the channel can give to forwardMessage
ForwardAnswers(ch, id) ==
    GenericFailures \cup
    (IF Exists(ch, id) THEN {AnswerOk}
     ELSE {Answer(400, FALSE, "Bad Request: message to forward not found")})

\* the copy the channel makes of message m
CopyOf(m) == [text |-> m.text, reply |-> Undefined, method |-> m.method,
              owner |-> "preview", deleted |-> FALSE]

\* the text the handler will return for the forwarded message m
ForwardedText(e, m) == IF e.handler = "preview.ts" THEN PreviewTextOlder(m) ELSE PreviewText(m)

\* tgApi('forwardMessage'), then the text of the result; a throw ends
\* preview.ts with {ok:false} and sends the later handler to its fallback
PreviewForward ==
    /\ pv.pc = "forward"
    /\ \E a \in ForwardAnswers(chan, pv.msgId) :
         LET dest == ForwardChat(penv)
             c == PvCall("forwardMessage", dest, pv.msgId, a)
             q == [pv EXCEPT !.calls = Append(@, c)]
         IN IF tgApi("forwardMessage", a) = NoMsg
            THEN /\ scratch' = IF dest = "scratch"
                               THEN Append(scratch, CopyOf(chan[pv.msgId])) ELSE scratch
                 /\ chan' = IF dest = "channel"
                            THEN Append(chan, CopyOf(chan[pv.msgId])) ELSE chan
                 /\ pv' = [q EXCEPT !.pc = "delete",
                                    !.copy = IF dest = "scratch" THEN Len(scratch) + 1
                                             ELSE AssignedId(chan),
                                    !.preview = ForwardedText(penv, chan[pv.msgId])]
            ELSE /\ pv' = IF penv.handler = "preview.ts" THEN PvDone(q, NotOk)
                          ELSE [q EXCEPT !.pc = "updates"]
                 /\ UNCHANGED <<chan, scratch>>
    /\ UNCHANGED <<now, env, req, jar, deletes, vtok, vres, seen, mtext, mres, cfile, cres,
                   penv, cl, conf>>

\* the request after its delete call: preview.ts responds with the text; the
\* later handler responds if the preview is not empty, else falls back
AfterDelete(e, q) ==
    IF e.handler = "preview.ts" \/ q.preview # <<>>
    THEN PvDone(q, PvResp(200, TRUE, q.preview))
    ELSE [q EXCEPT !.pc = "updates"]

\* try { tgApi('deleteMessage') } catch {}, then the response
PreviewDelete ==
    /\ pv.pc = "delete"
    /\ \E a \in GenericFailures \cup {AnswerOk} :
         LET dest == ForwardChat(penv)
             c == PvCall("deleteMessage", dest, pv.copy, a)
         IN /\ scratch' = IF a = AnswerOk /\ dest = "scratch"
                          THEN [scratch EXCEPT ![pv.copy].deleted = TRUE] ELSE scratch
            /\ chan' = IF a = AnswerOk /\ dest = "channel"
                       THEN [chan EXCEPT ![pv.copy].deleted = TRUE] ELSE chan
            /\ pv' = AfterDelete(penv, [pv EXCEPT !.calls = Append(@, c)])
    /\ UNCHANGED <<now, env, req, jar, deletes, vtok, vres, seen, mtext, mres, cfile, cres,
                   penv, cl, conf>>

\* what getUpdates can give: the fetch rejects, a body that is not ok, no
\* update, one update per message of the channel
UpdateAnswers == {"unreachable", "not-ok", "empty", "posts"}

\* the first update of the result for message id: its index in ch, 0 when none
FirstUpdate(ch, out, id) ==
    IF out = "posts" /\ id \in 1..Len(ch) THEN id ELSE 0

\* the fallback of the later handler: the response for what getUpdates gave
FromUpdates(q, ch, out) ==
    LET k == FirstUpdate(ch, out, q.msgId)
    IN IF out = "unreachable" \/ k = 0 \/ PreviewOf(ch[k]) = <<>> THEN PvDone(q, NotOk)
       ELSE PvDone(q, PvResp(200, TRUE, PreviewText(ch[k])))

PreviewUpdates ==
    /\ pv.pc = "updates"
    /\ \E out \in UpdateAnswers :
         pv' = FromUpdates([pv EXCEPT !.calls = Append(@, PvCall("getUpdates", "", Undefined,
                                                                 ProviderAnswer(
                                                                    IF out \in {"posts", "empty"}
                                                                    THEN "success" ELSE out)))],
                           chan, out)
    /\ UNCHANGED <<now, env, chan, req, jar, deletes, vtok, vres, seen, mtext, mres, cfile,
                   cres, penv, scratch, cl, conf>>

\* either handler, with its chat for forwarded copies configured or not
PvEnvs == [handler : {"preview.ts", "submit.ts"}, chat : BOOLEAN]

\* the channel holds submissions of every kind: a short text, a text whose
\* escaped preview passes the limit inside an entity, a photo with a caption, a
\* photo without one, a text of more than the limit, a text whose edit failed
PvTexts == <<<<"a">>, <<"a*197", "&", "b">>, <<"<">>, <<>>, <<"a*197", "a", "a", "a", "a">>>>

PvMethods == <<"sendMessage", "sendMessage", "sendPhoto", "sendPhoto", "sendMessage">>

PvChan ==
    [i \in 1..Len(PvTexts) |->
        [text |-> Stored(FinalText(i, sanitize(PvTexts[i]))), reply |-> Undefined,
         method |-> PvMethods[i], owner |-> "earlier", deleted |-> FALSE]] \o
    <<[text |-> <<"a">>, reply |-> Undefined, method |-> "sendMessage",
       owner |-> "earlier", deleted |-> FALSE]>>

InitPreview ==
    /\ now = Epoch0Ms
    /\ env \in Envs
    /\ chan = PvChan
    /\ req = [r \in Reqs |-> Idle]
    /\ jar = NoCookie
    /\ deletes = 0
    /\ vtok = NoCookie
    /\ vres = "none"
    /\ seen = NoInp
    /\ mtext = <<>>
    /\ mres = "pending"
    /\ cfile = NoFile
    /\ cres = NoDecision
    /\ penv \in PvEnvs
    /\ pv = NoPv
    /\ scratch = <<>>
    /\ cl = NoClient
    /\ conf = NoConfig

NextPreview ==
    \/ PreviewStart
    \/ PreviewForward
    \/ PreviewDelete
    \/ PreviewUpdates

SpecPreview == InitPreview /\ [][NextPreview]_vars

----------------------------------------------------------------------------
(* Properties of the submit handler (Spec) *)

\* the identifiers of the channel messages that request r created
Owned(r) == {i \in 1..Len(chan) : chan[i].owner = r}

PostMethods == {"sendMessage", "sendPhoto", "sendAudio", "sendVideo", "sendDocument"}
EditMethods == {"editMessageText", "editMessageCaption"}

CallsOf(r, methods) == {k \in 1..Len(req[r].calls) : req[r].calls[k].method \in methods}

\* the request got through the gates and has finished
Finished(r) == req[r].pc = "done" /\ req[r].calls # <<>>

\* C1: a text-only submission without reply reference, captcha disabled, that
\* gets through the gates makes exactly one post call, the first call of the
\* request; when the channel accepts it, exactly one edit call follows, its
\* target the identifier the channel gave the posted message and its text
\* cu-<that identifier>, then (after a blank line, when the text is not empty)
\* the submitted text, HTML-escaped; the channel then displays the submitted
\* text behind the prefix
C1_PostOnceThenEditOnce ==
    \A r \in Reqs :
        LET q == req[r] IN
        (Finished(r) /\ env.CAPTCHA_MODE = "none" /\ q.method = "sendMessage"
            /\ q.reply = Undefined) =>
            /\ CallsOf(r, PostMethods) = {1}
            /\ q.calls[1].text = (IF q.text = <<>> THEN <<".", ".", ".">> ELSE sanitize(q.text))
            /\ q.calls[1].answer # AnswerOk => Len(q.calls) = 1 /\ Owned(r) = {}
            /\ q.calls[1].answer = AnswerOk =>
                 /\ Len(q.calls) = 2
                 /\ CallsOf(r, EditMethods) = {2}
                 /\ q.calls[2].method = "editMessageText"
                 /\ Owned(r) = {q.calls[2].target}
                 /\ q.calls[2].text =
                      CuPrefix(q.calls[2].target) \o
                      (IF q.text = <<>> THEN <<>> ELSE Sep \o sanitize(q.text))
                 /\ RenderHtml(q.calls[2].text) =
                      CuPrefix(q.calls[2].target) \o
                      (IF q.text = <<>> THEN <<>> ELSE Sep \o q.text)

\* a text-only submission with a text that needs escaping was posted and edited
C1_Witness ==
    \E r \in Reqs :
        /\ Finished(r) /\ req[r].resp.status = 200
        /\ req[r].method = "sendMessage" /\ req[r].reply = Undefined
        /\ req[r].text = <<"<", "a">>
        /\ Len(req[r].calls) = 2

\* C2: two submissions that are both accepted, whatever the interleaving of
\* their steps and also when they reply to the same target, each created
\* exactly one channel message, the two identifiers differ, each handler holds
\* the identifier of its own message and each message displays cu-<its own
\* identifier>; no request ever creates more than one channel message
C2_DistinctChannelIds ==
    /\ \A r \in Reqs : Cardinality(Owned(r)) <= 1
    /\ \A r1, r2 \in Reqs :
         (r1 # r2 /\ req[r1].resp.status = 200 /\ req[r2].resp.status = 200) =>
            /\ Owned(r1) = {req[r1].id}
            /\ Owned(r2) = {req[r2].id}
            /\ req[r1].id # req[r2].id
            /\ ShownId(chan[req[r1].id].text) = req[r1].id
            /\ ShownId(chan[req[r2].id].text) = req[r2].id

\* the posts of two accepted submissions that reply to the same target were
\* interleaved: the one that posted first was edited last
C2_Witness ==
    /\ req["r1"].resp.status = 200 /\ req["r2"].resp.status = 200
    /\ req["r1"].reply = 1 /\ req["r2"].reply = 1
    /\ req["r1"].id > req["r2"].id

\* C3 (as claimed): every channel message that the intake created displays no
\* cu- prefix or cu-<N> with N its own identifier
C3_NeverForeignId ==
    \A i \in 1..Len(chan) :
        chan[i].owner \in Reqs => ShownId(chan[i].text) \in {NaN, i}

\* C4 (as claimed): a request whose post the channel refused because the reply
\* target is missing is answered 400 {"error":"reply_not_found"} and created
\* no message
C4_ReplyNotFound ==
    \A r \in Reqs :
        (Finished(r) /\ req[r].calls[1].answer \in ReplyMissingFailures) =>
            /\ req[r].resp = Resp(400, "{error:reply_not_found}")
            /\ Owned(r) = {}

\* C5: a request whose post the channel refused for another reason than a
\* missing reply target is answered 502, has created no message, has made no
\* other call than the post, and its response sets no token
C5_PostFailure ==
    \A r \in Reqs :
        (Finished(r) /\ req[r].calls[1].answer \in GenericFailures) =>
            /\ req[r].resp.status = 502
            /\ Owned(r) = {}
            /\ Len(req[r].calls) = 1
            /\ req[r].resp.cookie = NoCookie

\* the post of a request that replies to an existing message was refused
C5_Witness ==
    \E r \in Reqs :
        /\ Finished(r) /\ req[r].calls[1].answer \in GenericFailures
        /\ req[r].reply = 1 /\ req[r].resp.status = 502

\* C6 (as claimed): a request whose post succeeded and whose edit failed leaves
\* its message in the channel with the text as posted and without a cu-
\* prefix, has made one post call and one edit call and no other, and has
\* created one message
C6_EditFailure ==
    \A r \in Reqs :
        LET q == req[r] IN
        (Finished(r) /\ Len(q.calls) >= 2 /\ q.calls[2].answer # AnswerOk) =>
            /\ Owned(r) = {q.id}
            /\ chan[q.id].text = RenderHtml(q.calls[1].text)
            /\ ShownId(chan[q.id].text) = NaN
            /\ Len(q.calls) = 2
            /\ CallsOf(r, PostMethods) = {1} /\ CallsOf(r, EditMethods) = {2}
            /\ q.resp.status = 502

\* the timestamp a token carries
IssuedAt(token) == ParseInt(token[1])

\* C8: whenever the client holds the token of an accepted submission and a
\* further submission can arrive, a submission that presents that token and
\* passes the method and honeypot checks is answered 429 without any call if
\* the clock is less than the window past the token's timestamp, and is not
\* answered 429 otherwise
C8_FreshTokenBlocks ==
    (jar # NoCookie /\ \E r \in Reqs : req[r].pc = "idle") =>
        \A inp \in Inputs(jar) :
            (inp.cookie = jar /\ EarlyResponse(inp, env) = NoResp) =>
                LET q == Arrive(Idle, inp, now, env) IN
                IF now - IssuedAt(jar) * 1000 < RATE_WINDOW_SECONDS * 1000
                THEN q.pc = "done" /\ q.resp.status = 429 /\ q.calls = <<>>
                ELSE q.resp.status # 429

\* after an accepted submission another was answered 429, and the window of
\* the token the client holds has elapsed since
C8_Witness ==
    /\ req["r1"].resp.status = 200
    /\ req["r2"].resp.status = 429
    /\ now - IssuedAt(jar) * 1000 >= RATE_WINDOW_SECONDS * 1000

----------------------------------------------------------------------------
(* Properties of one request in every captcha mode (SpecCaptcha): seen is   *)
(* the input of the request ReqOrder[1]                                     *)

\* the request of SpecCaptcha
TheReq == req[ReqOrder[1]]

\* the handler of a configured deployment has taken the input and is past
\* its gates, or has ended
Handled ==
    /\ seen # NoInp /\ seen.httpMethod = "POST" /\ env.CONFIGURED
    /\ TheReq.pc # "captcha"

\* the calls of the request to the channel
ChannelCalls == CallsOf(ReqOrder[1], PostMethods \cup EditMethods)

\* the calls of the request to the captcha provider
ProviderCalls == CallsOf(ReqOrder[1], {"siteverify"})

\* what the provider answered to the request's siteverify call, "none" when
\* there was no call
Provided == IF ProviderCalls = {} THEN "none" ELSE TheReq.calls[1].answer.desc

\* the captcha verification of the request did not return ok
CaptchaNotOk ==
    \/ env.CAPTCHA_MODE # "none" /\ ~seen.token
    \/ env.CAPTCHA_MODE # "none" /\ Provided \in {"none", "no-success", "unparsable"}

\* the presented token is rate-limited at the time of the request
RateLimited ==
    seen.cookie # NoCookie /\ verify(seen.cookie, now, RATE_WINDOW_SECONDS) = "rate"

\* the first gate that the request fails, in the order honeypot, captcha,
\* rate limit, moderation, attachment; "none" when it fails none
FirstFailingGate ==
    IF seen.honeypot THEN "honeypot"
    ELSE IF CaptchaNotOk THEN "captcha"
    ELSE IF RateLimited THEN "rate"
    ELSE IF basicModeration(seen.text) # "none" THEN "moderation"
    ELSE IF ClassifyFile(seen.file, TRUE) # "none" THEN "attachment"
    ELSE "none"

\* C12: a POST request to which the handler responds gets the response of the
\* first gate it fails in the order honeypot, captcha, rate limit, moderation,
\* attachment classification; a request stopped by the honeypot has made no
\* call at all, one stopped by a later gate none to the channel, and only a
\* request that fails no gate calls the channel; a request whose handler ends
\* without response has made no call to the channel either
C12_GateOrder ==
    /\ (Handled /\ TheReq.pc = "failed") => ChannelCalls = {}
    /\ (Handled /\ TheReq.pc # "failed") =>
         /\ FirstFailingGate = "honeypot" =>
              TheReq.resp = Resp(400, "Invalid form") /\ TheReq.calls = <<>>
         /\ FirstFailingGate = "captcha" =>
              TheReq.resp = CaptchaFailed(env) /\ ChannelCalls = {}
         /\ FirstFailingGate = "rate" =>
              TheReq.resp.status = 429 /\ ChannelCalls = {}
         /\ FirstFailingGate = "moderation" =>
              TheReq.resp = Resp(400, basicModeration(seen.text)) /\ ChannelCalls = {}
         /\ FirstFailingGate = "attachment" =>
              TheReq.resp = Resp(400, ClassifyFile(seen.file, TRUE)) /\ ChannelCalls = {}
         /\ FirstFailingGate = "none" =>
              TheReq.pc \in {"post", "edit"} \/ ChannelCalls # {}
         /\ Cardinality(ProviderCalls) <= 1

\* a request that passed the captcha with a fresh token, a banned term and an
\* empty file was answered 429 after its one call to the provider
C12_Witness ==
    /\ Handled /\ TheReq.pc = "done"
    /\ ~seen.honeypot /\ Provided = "success" /\ RateLimited
    /\ basicModeration(seen.text) # "none" /\ ClassifyFile(seen.file, TRUE) # "none"
    /\ TheReq.resp.status = 429 /\ Len(TheReq.calls) = 1

\* the request has reached the post: it is about to call the channel or has
\* called it
ReachedPost == TheReq.pc \in {"post", "edit"} \/ ChannelCalls # {}

\* the handler has ended the request
Ended == TheReq.pc \in {"done", "failed"}

\* C13: the request reaches the post only if it is a POST with an empty
\* honeypot, its captcha verification returned ok, its token is not
\* rate-limited, moderation found nothing and its attachment, if any, passed
\* classification; a request that ended without a call to the channel has
\* created no message; and once the handler has ended the request, no step
\* changes the request or the channel
C13_PostOnlyPastGates ==
    /\ [](ReachedPost =>
            /\ seen.httpMethod = "POST" /\ env.CONFIGURED /\ ~seen.honeypot
            /\ ~CaptchaNotOk
            /\ env.CAPTCHA_MODE = "none" \/ Provided = "success"
            /\ ~RateLimited
            /\ basicModeration(seen.text) = "none"
            /\ ClassifyFile(seen.file, TRUE) = "none")
    /\ []((Ended /\ ChannelCalls = {}) => Owned(ReqOrder[1]) = {})
    /\ [][Ended => (req' = req /\ chan' = chan)]_vars

\* a request with a token that is no longer fresh and an attachment passed
\* every gate and posted
C13_Witness ==
    /\ ReachedPost /\ Provided = "success"
    /\ seen.cookie # NoCookie /\ seen.file # NoFile
    /\ Owned(ReqOrder[1]) # {}

\* C14 (as claimed): a POST request with an empty text and no attachment that
\* no earlier gate stops is answered 400 and nothing is posted for it
C14_EmptyRejected ==
    (Handled /\ TheReq.pc # "failed" /\ seen.text = <<>> /\ seen.file = NoFile
        /\ FirstFailingGate = "none") =>
        /\ TheReq.resp.status = 400
        /\ ChannelCalls = {}
        /\ Owned(ReqOrder[1]) = {}

\* C15 (as claimed): a POST request with an empty honeypot whose captcha
\* verification did not return ok is answered 400 with the payload
\* {"error":"captcha_failed"}, whatever the configuration
C15_CaptchaFailedPayload ==
    (Handled /\ TheReq.pc = "done" /\ ~seen.honeypot /\ CaptchaNotOk) =>
        TheReq.resp = Resp(400, "{error:captcha_failed}")

\* the request has come to the captcha verification
AtCaptcha ==
    seen # NoInp /\ seen.httpMethod = "POST" /\ env.CONFIGURED /\ ~seen.honeypot

\* the secret of the configured provider is set
SecretSet ==
    \/ env.CAPTCHA_MODE = "turnstile" /\ env.TURNSTILE_SECRET
    \/ env.CAPTCHA_MODE = "hcaptcha" /\ env.HCAPTCHA_SECRET

\* C16 (as claimed): with the mode enabled and a response token present, the
\* captcha verification makes exactly one outbound call
C16_OneCallWhenToken ==
    (AtCaptcha /\ env.CAPTCHA_MODE # "none" /\ seen.token) =>
        Cardinality(ProviderCalls) = 1

\* C16 (amended): the captcha verification makes no outbound call and lets
\* the request pass when the mode is disabled; makes no outbound call and
\* rejects the request (missing-token) when the mode is enabled and no
\* response token is present; makes no outbound call and rejects the request
\* (misconfigured) when a token is present and the secret of the configured
\* provider is not set; and makes exactly one outbound call, whatever the
\* provider answers, when a token is present and the secret is set
C16_CaptchaCalls ==
    AtCaptcha =>
        /\ env.CAPTCHA_MODE = "none" =>
             /\ ProviderCalls = {}
             /\ TheReq.resp # CaptchaFailed(env)
        /\ (env.CAPTCHA_MODE # "none" /\ ~seen.token) =>
             /\ ProviderCalls = {}
             /\ CaptchaPlan(env, seen.token) = "missing-token"
             /\ TheReq.pc = "done" /\ TheReq.resp = CaptchaFailed(env)
        /\ (env.CAPTCHA_MODE # "none" /\ seen.token /\ ~SecretSet) =>
             /\ ProviderCalls = {}
             /\ CaptchaPlan(env, seen.token) = "misconfigured"
             /\ TheReq.pc = "done" /\ TheReq.resp = CaptchaFailed(env)
        /\ (env.CAPTCHA_MODE # "none" /\ seen.token /\ SecretSet) =>
             Cardinality(ProviderCalls) = 1

\* the provider's answer to the one call of a request could not be parsed,
\* and the request ended without another call
C16_Witness ==
    /\ AtCaptcha /\ seen.token /\ SecretSet
    /\ Provided = "unparsable" /\ TheReq.pc = "done"
    /\ Cardinality(ProviderCalls) = 1 /\ Len(TheReq.calls) = 1

\* C17 (as claimed): with the mode enabled, a token present and the call to
\* the provider made, the request passes the captcha exactly when the
\* provider answered success true; for every other outcome of the call (no
\* success, a body that cannot be parsed, no answer) the handler answers with
\* the captcha-failed rejection
C17_ProviderDecides ==
    (AtCaptcha /\ ProviderCalls # {} /\ TheReq.pc # "captcha") =>
        IF Provided = "success"
        THEN TheReq.pc # "failed" /\ TheReq.resp # CaptchaFailed(env)
        ELSE TheReq.pc = "done" /\ TheReq.resp = CaptchaFailed(env)

----------------------------------------------------------------------------
(* Properties of the preview handlers (SpecPreview) *)

\* the request forwarded the message: a copy of it was made
Forwarded == pv.copy # Undefined

\* the delete calls the request made for its copy
DeleteCalls ==
    {k \in 1..Len(pv.calls) :
        pv.calls[k].method = "deleteMessage" /\ pv.calls[k].target = pv.copy}

\* the forwarded copies that are still where they were forwarded to
CopiesLeft ==
    {<<"scratch", i>> : i \in {j \in 1..Len(scratch) : ~scratch[j].deleted}} \cup
    {<<"channel", i>> : i \in {j \in 1..Len(chan) :
                                  chan[j].owner = "preview" /\ ~chan[j].deleted}}

\* C23: a preview request that forwarded the referenced message has issued a
\* delete of the forwarded copy by the time it responds, and once it has
\* completed no forwarded copy remains where it was forwarded to.
C23_ForwardedCopyDeleted ==
    (pv.pc = "done" /\ Forwarded) => (DeleteCalls # {} /\ CopiesLeft = {})

\* the tokens of a text that is not HTML-escaped: a bare special character,
\* or an entity cut short
Unescaped == {"&", "<", ">", "&a", "&am", "&amp", "&l", "&lt", "&g", "&gt"}

\* C24: the text of a successful preview does not begin with the cu-<N> of
\* the message, is HTML-escaped with no entity cut short, and has at most 200
\* characters, whatever the stored text of the message.
C24_PreviewText ==
    (pv.pc = "done" /\ pv.resp.ok) =>
        /\ ~StartsWith(pv.resp.text, CuPrefix(pv.msgId))
        /\ \A i \in 1..Len(pv.resp.text) : pv.resp.text[i] \notin Unescaped
        /\ CharLen(pv.resp.text) <= PreviewLimit

\* C25: when the signing secret or a channel credential is not set, a POST is
\* answered 500 whatever it contains (a honeypot value, a captcha token, a
\* fresh rate-limit token, a banned text, a bad attachment): the response
\* carries no token, the request has made no call to the captcha provider or
\* to the channel, and the channel is as it was.
C25_NotConfigured ==
    (seen # NoInp /\ seen.httpMethod = "POST" /\ ~env.CONFIGURED) =>
        /\ TheReq.pc = "done"
        /\ TheReq.resp = Resp(500, "Server not configured")
        /\ TheReq.calls = <<>>
        /\ chan = Chan0 /\ jar \in {NoCookie, sign(NowSeconds(Epoch0Ms))}

\* a request that every later gate would stop or pass in its own way (a
\* filled honeypot, a captcha token for an enabled mode, a token still in its
\* window) was answered 500
C25_Witness ==
    /\ seen # NoInp /\ seen.httpMethod = "POST" /\ ~env.CONFIGURED
    /\ seen.honeypot /\ seen.token /\ env.CAPTCHA_MODE = "turnstile" /\ env.TURNSTILE_SECRET
    /\ seen.cookie # NoCookie /\ verify(seen.cookie, now, RATE_WINDOW_SECONDS) = "rate"
    /\ TheReq.resp.status = 500

----------------------------------------------------------------------------
(* SpecWindow: one submission to each submit handler under every rate-limit *)
(* setting, with a token of every age, and GET /config                      *)

\* the settings RATE_LIMIT_SECONDS and RATE_LIMIT_MINUTES: not set, a number,
\* for the seconds also a value that is not a number
EnvsWindow ==
    [CAPTCHA_MODE : {"none"}, TURNSTILE_SECRET : {FALSE}, HCAPTCHA_SECRET : {FALSE},
     DEBUG : {FALSE}, CONFIGURED : {TRUE},
     RATE_LIMIT_SECONDS : {Unset, <<"2">>, <<"x">>}, RATE_LIMIT_MINUTES : {Unset, <<"2">>}]

\* the second in which the client's token was issued
WindowIssued == NowSeconds(Epoch0Ms)

\* the age of the token in milliseconds when the submission arrives
WindowAges == {0, 1500, 2000, 9500, 10000, 30000, 59500, 60000, 119500, 120000}

InitWindow ==
    /\ now \in {WindowIssued * 1000 + a : a \in WindowAges}
    /\ env \in EnvsWindow
    /\ chan = Chan0
    /\ req = [r \in Reqs |-> Idle]
    /\ jar = sign(WindowIssued)
    /\ deletes = 0
    /\ vtok = NoCookie
    /\ vres = "none"
    /\ seen = NoInp
    /\ mtext = <<>>
    /\ mres = "pending"
    /\ cfile = NoFile
    /\ cres = NoDecision
    /\ penv = NoPenv
    /\ pv = NoPv
    /\ scratch = <<>>
    /\ cl = NoClient
    /\ conf = NoConfig

\* the inputs of SpecWindow: a text, no attachment, the token held or a
\* forged one
WindowInputs(held) ==
    {inp \in Inputs(held) :
        /\ inp.httpMethod = "POST" /\ ~inp.honeypot /\ ~inp.token
        /\ inp.file = NoFile /\ inp.replyRaw = <<>>}

\* the request arrives and passes or fails the rate check under the window of
\* the settings
WindowSubmit(r) ==
    /\ req[r].pc = "idle"
    /\ \E inp \in WindowInputs(jar) :
         /\ req' = [req EXCEPT ![r] =
                       AfterCaptchaIn(Idle, inp, now,
                                      RateWindowSeconds(env.RATE_LIMIT_SECONDS,
                                                        env.RATE_LIMIT_MINUTES))]
         /\ seen' = inp
    /\ UNCHANGED <<now, env, chan, jar, deletes, vtok, vres, mtext, mres, cfile, cres, penv,
                   pv, scratch, cl, conf>>

\* the same request to the earlier submit handler (submit.ts), with the token
\* the client holds
LegacyWindowSubmit(r) ==
    /\ req[r].pc = "idle"
    /\ \E inp \in {i \in WindowInputs(jar) : i.cookie = jar} :
         LET g == GateResponse(inp, now, LegacyWindowSeconds(env.RATE_LIMIT_MINUTES), FALSE)
         IN req' = [req EXCEPT ![r] =
                       IF g # NoResp THEN Done(Idle, g)
                       ELSE [Idle EXCEPT !.pc = "count", !.text = inp.text,
                                         !.method = PostMethod(inp.file)]]
    /\ UNCHANGED <<now, env, chan, jar, deletes, vtok, vres, seen, mtext, mres, cfile, cres,
                   penv, pv, scratch, cl, conf>>

\* GET /config: the client learns rate_limit_seconds
ConfigGet ==
    /\ conf = NoConfig
    /\ conf' = ConfigResponse(env.RATE_LIMIT_SECONDS, env.RATE_LIMIT_MINUTES)
    /\ UNCHANGED <<now, env, chan, req, jar, deletes, vtok, vres, seen, mtext, mres, cfile,
                   cres, penv, pv, scratch, cl>>

NextWindow ==
    \/ WindowSubmit(ReqOrder[1])
    \/ LegacyWindowSubmit(ReqOrder[2])
    \/ ConfigGet

SpecWindow == InitWindow /\ [][NextWindow]_vars

\* C26: with neither RATE_LIMIT_SECONDS nor RATE_LIMIT_MINUTES set, a
\* submission that presents a valid token issued less than 60 seconds earlier
\* is answered 429.
C26_DefaultWindowOneMinute ==
    (/\ seen # NoInp
     /\ env.RATE_LIMIT_SECONDS = Unset /\ env.RATE_LIMIT_MINUTES = Unset
     /\ seen.cookie = sign(WindowIssued)
     /\ now - WindowIssued * 1000 < 60 * 1000) =>
        TheReq.resp.status = 429

\* the token is the timestamp and the signature that sign gives for it
WellSigned(token) ==
    /\ Len(token) = 2 /\ ParseInt(token[1]) # NaN
    /\ token = <<Dec(ParseInt(token[1])), Hmac(SIGNING_SECRET, Dec(ParseInt(token[1])))>>

\* the input of the request, had it been sent without a token
SeenNoToken == [seen EXCEPT !.cookie = NoCookie]

\* C27: a request is answered 429 only if it presented a correctly signed
\* token whose window has not passed; a request with no token, a malformed
\* token or a token with a wrong signature goes on past the rate check as the
\* same request without a token would: stopped by moderation or by the
\* attachment checks with their response, or on to the post.
C27_OnlyValidTokenBlocks ==
    /\ (Handled /\ TheReq.resp.status = 429) =>
          /\ WellSigned(seen.cookie)
          /\ now - ParseInt(seen.cookie[1]) * 1000 < RATE_WINDOW_SECONDS * 1000
    /\ (Handled /\ TheReq.pc # "failed" /\ ~seen.honeypot /\ ~CaptchaNotOk
        /\ ~WellSigned(seen.cookie)) =>
          /\ TheReq.resp.status # 429
          /\ IF GateResponse(SeenNoToken, now, RATE_WINDOW_SECONDS, TRUE) # NoResp
             THEN /\ TheReq.pc = "done" /\ ChannelCalls = {}
                  /\ TheReq.resp = GateResponse(SeenNoToken, now, RATE_WINDOW_SECONDS, TRUE)
             ELSE ReachedPost

\* a request presented the client's token with a byte of its signature
\* changed, inside the window of the genuine token, and was posted and
\* answered 200
C27_Witness ==
    /\ Handled /\ jar # NoCookie /\ seen.cookie # jar /\ Len(seen.cookie) = 2
    /\ ~WellSigned(seen.cookie)
    /\ now - ParseInt(seen.cookie[1]) * 1000 < RATE_WINDOW_SECONDS * 1000
    /\ Owned(ReqOrder[1]) # {} /\ TheReq.resp.status = 200

----------------------------------------------------------------------------
(* Properties of the responses of the submit handler (Spec) *)

\* the post call of request r was accepted by the channel
PostOk(r) ==
    \E k \in CallsOf(r, PostMethods) : req[r].calls[k].answer = AnswerOk

\* an edit call of request r for the message the channel assigned to it, with
\* the text cu-<that identifier> in front, was accepted by the channel
EditOk(r) ==
    \E k \in CallsOf(r, EditMethods) :
        /\ req[r].calls[k].answer = AnswerOk
        /\ req[r].calls[k].target = req[r].id
        /\ StartsWith(req[r].calls[k].text, CuPrefix(req[r].id))

\* C28: a request is answered 200 {ok:true} only if exactly one message was
\* posted for it, the channel accepted its one post call, and the channel
\* accepted its edit of that message to a text with cu-<the identifier of the
\* message> in front; and a request that has ended with its post and its edit
\* both accepted is answered 200 {ok:true}.
C28_OkIffPostedAndEdited ==
    \A r \in Reqs :
        /\ req[r].resp.status = 200 =>
             /\ req[r].resp.body = "{ok:true}"
             /\ Cardinality(CallsOf(r, PostMethods)) = 1 /\ PostOk(r)
             /\ Owned(r) = {req[r].id}
             /\ EditOk(r)
        /\ (req[r].pc = "done" /\ PostOk(r) /\ EditOk(r)) =>
             req[r].resp.status = 200 /\ req[r].resp.body = "{ok:true}"

\* one request was answered 200 after its post and edit, another was
\* answered 502 after its post was accepted and its edit refused
C28_Witness ==
    \E r1, r2 \in Reqs :
        /\ req[r1].resp.status = 200 /\ PostOk(r1) /\ EditOk(r1)
        /\ req[r2].resp.status = 502 /\ PostOk(r2) /\ ~EditOk(r2)
        /\ Owned(r2) # {}

\* C29: a response other than 200 (400, 405, 429, 500, 502, also the 502
\* that follows an accepted post) carries no rate-limit cookie and leaves the
\* token the client holds as it was; a 200 response carries the token signed
\* over the second of the clock at the response, which the client then holds.
C29_CookieOnlyOn200 ==
    /\ [](TheReq.pc = "done" =>
            /\ TheReq.resp.status \in {200, 400, 405, 429, 500, 502}
            /\ TheReq.resp.status # 200 => TheReq.resp.cookie = NoCookie
            /\ TheReq.resp.status = 200 =>
                 /\ TheReq.resp.cookie = sign(NowSeconds(now))
                 /\ jar = sign(NowSeconds(now)))
    /\ [][TheReq'.resp.status # 200 => jar' = jar]_vars

\* a request that presented the client's token was answered 502 after its
\* message was posted, and the client holds the token it held
C29_Witness ==
    /\ TheReq.pc = "done" /\ TheReq.resp.status = 502 /\ Owned(ReqOrder[1]) # {}
    /\ seen.cookie # NoCookie /\ jar = seen.cookie

----------------------------------------------------------------------------
(* SpecRace: two requests of one client, their inputs kept for the record   *)

\* the client holds no token, one whose window has passed, or a fresh one
RaceJars ==
    {NoCookie, sign(NowSeconds(Epoch0Ms) - RATE_WINDOW_SECONDS - 1),
     sign(NowSeconds(Epoch0Ms))}

InitRace ==
    /\ now = Epoch0Ms
    /\ env \in Envs
    /\ chan = Chan0
    /\ req = [r \in Reqs |-> Idle]
    /\ jar \in RaceJars
    /\ deletes = 0
    /\ vtok = NoCookie
    /\ vres = "none"
    /\ seen = [r \in Reqs |-> NoInp]
    /\ mtext = <<>>
    /\ mres = "pending"
    /\ cfile = NoFile
    /\ cres = NoDecision
    /\ penv = NoPenv
    /\ pv = NoPv
    /\ scratch = <<>>
    /\ cl = NoClient
    /\ conf = NoConfig

\* the inputs of SpecRace: a text that passes moderation or one that does
\* not, no attachment, no token or the token the client holds
RaceInputs(held) ==
    {inp \in Inputs(held) :
        /\ inp.httpMethod = "POST" /\ ~inp.honeypot /\ ~inp.token
        /\ inp.text \in {<<"<", "a">>, <<"bomba">>}
        /\ inp.file = NoFile /\ inp.replyRaw = <<>>
        /\ inp.cookie \in {NoCookie, held}}

\* a request arrives with the cookie the client holds at that moment
RaceStart(r) ==
    /\ req[r].pc = "idle"
    /\ \A i \in 1..Len(ReqOrder) :
         ReqOrder[i] = r => \A j \in 1..(i - 1) : req[ReqOrder[j]].pc # "idle"
    /\ \E inp \in RaceInputs(jar) :
         /\ req' = [req EXCEPT ![r] = Arrive(Idle, inp, now, env)]
         /\ seen' = [seen EXCEPT ![r] = inp]
    /\ UNCHANGED <<now, env, chan, jar, deletes, vtok, vres, mtext, mres, cfile, cres, penv,
                   pv, scratch, cl, conf>>

NextRace ==
    \/ \E r \in Reqs : RaceStart(r)
    \/ \E r \in Reqs : Post(r)
    \/ \E r \in Reqs : Edit(r)
    \/ Tick

SpecRace == InitRace /\ [][NextRace]_vars

\* request r has passed the gates: it is about to post or has called the channel
PastGates(r) == req[r].pc \in {"post", "edit"} \/ CallsOf(r, PostMethods) # {}

\* the token does not block at the start of the behaviour: there is none, or
\* its window has passed
NotBlocking(token) ==
    token = NoCookie \/ Epoch0Ms - IssuedAt(token) * 1000 >= RATE_WINDOW_SECONDS * 1000

\* C30: two requests that presented the same token, or both none, and whose
\* texts pass moderation are decided alike by the rate check, whether or not
\* the first has been answered when the second arrives: when the token does
\* not block, neither is answered 429, both go on to post, and each whose
\* post the channel accepted has its own message in the channel; when the
\* token is inside its window at the arrival of both, both are answered 429.
C30_ConcurrentBothPass ==
    \A r1, r2 \in Reqs :
        (/\ r1 # r2 /\ seen[r1] # NoInp /\ seen[r2] # NoInp
         /\ seen[r1].cookie = seen[r2].cookie
         /\ basicModeration(seen[r1].text) = "none"
         /\ basicModeration(seen[r2].text) = "none") =>
            /\ NotBlocking(seen[r1].cookie) =>
                 /\ req[r1].resp.status # 429 /\ req[r2].resp.status # 429
                 /\ PastGates(r1) /\ PastGates(r2)
                 /\ \A r \in {r1, r2} : PostOk(r) => Cardinality(Owned(r)) = 1
                 /\ (PostOk(r1) /\ PostOk(r2)) => Owned(r1) # Owned(r2)
            /\ (~NotBlocking(seen[r1].cookie)
                /\ now - IssuedAt(seen[r1].cookie) * 1000 < RATE_WINDOW_SECONDS * 1000) =>
                 req[r1].resp.status = 429 /\ req[r2].resp.status = 429

\* both requests presented the token the client held, the second arrived
\* while the first was between its post and its edit, and both have posted
C30_Witness ==
    /\ seen["r1"].cookie # NoCookie /\ seen["r1"].cookie = seen["r2"].cookie
    /\ req["r1"].pc = "edit" /\ req["r2"].pc = "edit"
    /\ Owned("r1") # {} /\ Owned("r2") # {} /\ Owned("r1") # Owned("r2")

\* the forward calls of the preview request
ForwardCalls == {k \in 1..Len(pv.calls) : pv.calls[k].method = "forwardMessage"}

\* C31: a preview request creates no message in the channel: the chat of its
\* forward call is never the channel, whichever handler is deployed and
\* whether or not its chat for forwarded copies is configured, and the channel
\* has the messages it had, so no identifier of the channel is used up.
C31_PreviewNeverPostsInChannel ==
    /\ \A k \in ForwardCalls : pv.calls[k].chat # "channel"
    /\ Len(chan) = Len(PvChan)

----------------------------------------------------------------------------
(* SpecClient: the captcha token handling of the web client                 *)

\* tokens the widget issues during a behaviour, and submit requests the
\* client sends
MaxWidgetTokens == 3
MaxSubmits == 3

\* the captcha mode the client has learnt from GET /config
EnvsClient ==
    [CAPTCHA_MODE : {"none", "turnstile"}, TURNSTILE_SECRET : {TRUE},
     HCAPTCHA_SECRET : {FALSE}, DEBUG : BOOLEAN, CONFIGURED : {TRUE}]

\* the widget is rendered and its first challenge is running
InitClient ==
    /\ now = Epoch0Ms
    /\ env \in EnvsClient
    /\ chan = Chan0
    /\ req = [r \in Reqs |-> Idle]
    /\ jar = NoCookie
    /\ deletes = 0
    /\ vtok = NoCookie
    /\ vres = "none"
    /\ seen = NoInp
    /\ mtext = <<>>
    /\ mres = "pending"
    /\ cfile = NoFile
    /\ cres = NoDecision
    /\ penv = NoPenv
    /\ pv = NoPv
    /\ scratch = <<>>
    /\ cl = [NoClient EXCEPT !.refresh = env.CAPTCHA_MODE # "none"]
    /\ conf = NoConfig

\* the request leaves with token t
Sending(c, t) == [c EXCEPT !.pc = "sent", !.sent = Append(@, t)]

\* the widget's callback: a new token, the next version, and the submit that
\* waits for a token goes out with it
WidgetCallback ==
    /\ cl.refresh /\ cl.issued < MaxWidgetTokens
    /\ LET c == [cl EXCEPT !.token = cl.issued + 1, !.issued = @ + 1, !.version = @ + 1,
                           !.refresh = FALSE]
       IN cl' = IF cl.pc = "waiting" THEN Sending(c, c.token) ELSE c
    /\ UNCHANGED <<now, env, chan, req, jar, deletes, vtok, vres, seen, mtext, mres, cfile,
                   cres, penv, pv, scratch, conf>>

\* the widget's error-callback: the token is dropped and a refresh follows
WidgetError ==
    /\ cl.refresh
    /\ cl' = [cl EXCEPT !.token = 0]
    /\ UNCHANGED <<now, env, chan, req, jar, deletes, vtok, vres, seen, mtext, mres, cfile,
                   cres, penv, pv, scratch, conf>>

\* requireCaptchaToken: '' in mode none, the token held if its version is
\* past the last one used, else a reset of the widget and the wait for its
\* callback
requireCaptchaToken(c, mode) ==
    IF mode = "none" THEN Sending(c, 0)
    ELSE IF c.token # 0 /\ c.version > c.lastUsed THEN Sending(c, c.token)
    ELSE [c EXCEPT !.refresh = TRUE, !.pc = "waiting"]

\* handleSubmit up to the fetch
ClientSubmit ==
    /\ cl.pc = "idle" /\ Len(cl.sent) < MaxSubmits
    /\ cl' = requireCaptchaToken(cl, env.CAPTCHA_MODE)
    /\ UNCHANGED <<now, env, chan, req, jar, deletes, vtok, vres, seen, mtext, mres, cfile,
                   cres, penv, pv, scratch, conf>>

\* the wait for the callback ends after 10 seconds: nothing is sent
WaitTimeout ==
    /\ cl.pc = "waiting"
    /\ cl' = [cl EXCEPT !.pc = "idle"]
    /\ UNCHANGED <<now, env, chan, req, jar, deletes, vtok, vres, seen, mtext, mres, cfile,
                   cres, penv, pv, scratch, conf>>

\* what comes back for a submit request: 200, the captcha failure (a JSON
\* payload only when the server has DEBUG set), another JSON error, a
\* response with a text body (400, 429, 502), no response at all
Outcomes(e) ==
    {"ok", "reply_not_found", "text", "network"} \cup
    (IF e.CAPTCHA_MODE = "none" THEN {}
     ELSE IF e.DEBUG THEN {"captcha_failed"} ELSE {"text"})

\* handleSubmit after the fetch: the token is marked as used on 200 and on
\* the JSON error captcha_failed, and after a 200 the widget is refreshed
AfterResponse(c, out, mode) ==
    IF out = "ok"
    THEN [c EXCEPT !.pc = "idle", !.lastUsed = c.version,
                   !.refresh = (mode # "none" \/ @)]
    ELSE IF out = "captcha_failed" THEN [c EXCEPT !.pc = "idle", !.lastUsed = c.version]
    ELSE [c EXCEPT !.pc = "idle"]

ClientResponse ==
    /\ cl.pc = "sent"
    /\ \E out \in Outcomes(env) : cl' = AfterResponse(cl, out, env.CAPTCHA_MODE)
    /\ UNCHANGED <<now, env, chan, req, jar, deletes, vtok, vres, seen, mtext, mres, cfile,
                   cres, penv, pv, scratch, conf>>

NextClient ==
    \/ WidgetCallback
    \/ WidgetError
    \/ ClientSubmit
    \/ WaitTimeout
    \/ ClientResponse

SpecClient == InitClient /\ [][NextClient]_vars

\* C32: no captcha token is sent in two submit requests: after a request that
\* reached the server, whatever came back, the next request goes out with a
\* token the widget issued after it.
C32_TokenSentOnce ==
    \A i, j \in 1..Len(cl.sent) :
        (i < j /\ cl.sent[i] # 0) => cl.sent[i] < cl.sent[j]

----------------------------------------------------------------------------
(* SpecModeration: basicModeration applied to texts from a bounded set *)

\* the longest tail of a text after its padding
MaxBody == 3

ModAlphabet == {"a", "A", "bomba", "BOMBA", "http://", "HTTPS://", "www.", "I-dot"}

\* nothing, or a run of letters that ends 5 or 1 short of the length limit
ModPads == {<<>>, <<"a*3995">>, <<"a*3999">>}

ModBodies == UNION {[1..n -> ModAlphabet] : n \in 0..MaxBody}

ModTexts == {pad \o body : pad \in ModPads, body \in ModBodies}

InitModeration ==
    /\ now = Epoch0Ms
    /\ env \in Envs
    /\ chan = Chan0
    /\ req = [r \in Reqs |-> Idle]
    /\ jar = NoCookie
    /\ deletes = 0
    /\ vtok = NoCookie
    /\ vres = "none"
    /\ seen = NoInp
    /\ mtext \in ModTexts
    /\ mres = "pending"
    /\ cfile = NoFile
    /\ cres = NoDecision
    /\ penv = NoPenv
    /\ pv = NoPv
    /\ scratch = <<>>
    /\ cl = NoClient
    /\ conf = NoConfig

\* basicModeration(text)
ModerateApply ==
    /\ mres = "pending"
    /\ mres' = basicModeration(mtext)
    /\ UNCHANGED <<now, env, chan, req, jar, deletes, vtok, vres, seen, mtext, cfile, cres, penv, pv, scratch,
                   cl, conf>>

NextModeration == ModerateApply

SpecModeration == InitModeration /\ [][NextModeration]_vars

\* the text contains a banned term, in whatever case
HasBannedTerm(text) == \E i \in 1..Len(text) : text[i] \in BadWords \cup {"BOMBA"}

\* the link-like substrings of the text, in whatever case
Links(text) == Count(text, {"http://", "https://", "HTTP://", "HTTPS://", "www.", "WWW."})

\* C18 (as claimed): the moderation check returns the length violation for a
\* text of more than 4000 characters, whatever else it contains; otherwise the
\* banned-term violation for a text that contains a banned term in whatever
\* case; otherwise the link violation for a text with more than 2 link-like
\* substrings; and none otherwise, in particular for a text of exactly 4000
\* characters and for a text with exactly 2 link-like substrings
C18_FirstViolation ==
    mres # "pending" =>
        mres = IF CharLen(mtext) > MaxTextLen THEN "too-long"
               ELSE IF HasBannedTerm(mtext) THEN "banned-words"
               ELSE IF Links(mtext) > MaxLinks THEN "too-many-links"
               ELSE "none"

----------------------------------------------------------------------------
(* SpecClassify: the file checks applied to attachments from a bounded set *)

Exe == <<"application/", "x-msdownload">>
Sh == <<"application/", "x-sh">>
Mp3 == <<"audio/", "mpeg">>

\* bytes of an attachment beyond the configured limit
MaxOver == 1

\* content.length: nothing, one byte, around the limit
ClassSizes == {0, 1, MaxBytes - 1} \cup {MaxBytes + k : k \in 0..MaxOver}

\* file.contentType as the client declared it
DeclaredMimes == {NoMime, Png, Pdf, Mp4, Mp3, Sh}

\* what fileTypeFromBuffer finds in the bytes, NoMime when nothing
SniffedMimes == {NoMime, Png, Pdf, Mp4, Mp3, Exe}

\* the attachments: nothing can be sniffed from no bytes
ClassFiles ==
    {f \in [size : ClassSizes, declared : DeclaredMimes, sniffed : SniffedMimes] :
        f.size = 0 => f.sniffed = NoMime}

InitClassify ==
    /\ now = Epoch0Ms
    /\ env \in Envs
    /\ chan = Chan0
    /\ req = [r \in Reqs |-> Idle]
    /\ jar = NoCookie
    /\ deletes = 0
    /\ vtok = NoCookie
    /\ vres = "none"
    /\ seen = NoInp
    /\ mtext = <<>>
    /\ mres = "pending"
    /\ cfile \in ClassFiles
    /\ cres = NoDecision
    /\ penv = NoPenv
    /\ pv = NoPv
    /\ scratch = <<>>
    /\ cl = NoClient
    /\ conf = NoConfig

\* the file checks of the handler
ClassifyApply ==
    /\ cres = NoDecision
    /\ cres' = Decide(cfile)
    /\ UNCHANGED <<now, env, chan, req, jar, deletes, vtok, vres, seen, mtext, mres, cfile,
                   penv, pv, scratch, cl, conf>>

NextClassify == ClassifyApply

SpecClassify == InitClassify /\ [][NextClassify]_vars

\* C19: an attachment of zero bytes is rejected as empty; an attachment of
\* more bytes than the configured limit is rejected with the size-exceeded
\* reason; an attachment of at least one byte and at most the limit, the
\* limit itself included, is rejected neither as empty nor for its size
C19_SizeBoundary ==
    cres # NoDecision =>
        /\ cfile.size = 0 => cres.reason = "empty-file"
        /\ cfile.size > MAX_ATTACHMENT_SIZE_MB * 1024 * 1024 => cres.reason = "size-exceeded"
        /\ (cfile.size >= 1 /\ cfile.size <= MAX_ATTACHMENT_SIZE_MB * 1024 * 1024) =>
             cres.reason \notin {"empty-file", "size-exceeded"}

\* an image of exactly the configured limit passed the file checks
C19_Witness ==
    /\ cfile.size = MAX_ATTACHMENT_SIZE_MB * 1024 * 1024
    /\ cres.reason = "none" /\ cres.method = "sendPhoto"

\* the decisions that the policy takes for a MIME type
PolicyFor(mime) ==
    IF \E p \in Blocked : StartsWith(mime, p) THEN [reason |-> "type-forbidden", method |-> ""]
    ELSE IF StartsWith(mime, <<"video/">>) THEN [reason |-> "video-unsupported", method |-> ""]
    ELSE IF StartsWith(mime, <<"image/">>) THEN [reason |-> "none", method |-> "sendPhoto"]
    ELSE IF StartsWith(mime, <<"audio/">>) THEN [reason |-> "none", method |-> "sendAudio"]
    ELSE [reason |-> "none", method |-> "sendDocument"]

\* the attachment is neither empty nor over the limit
SizeOk(file) == file.size >= 1 /\ file.size <= MaxBytes

\* C20: for an attachment that is neither empty nor too large, the denylist,
\* the video rejection and the choice of the posting primitive are those of
\* the sniffed type whenever a type can be sniffed, whatever the client
\* declared; they are those of the declared type only when nothing can be
\* sniffed
C20_SniffedOverridesDeclared ==
    (cres # NoDecision /\ SizeOk(cfile)) =>
        /\ cfile.sniffed # NoMime => cres = PolicyFor(cfile.sniffed)
        /\ cfile.sniffed = NoMime => cres = PolicyFor(cfile.declared)

\* an attachment declared as a shell script whose bytes are those of an image
\* was accepted as a photo
C20_Witness ==
    /\ SizeOk(cfile) /\ cfile.declared = Sh /\ cfile.sniffed = Png
    /\ cres = [reason |-> "none", method |-> "sendPhoto"]

\* the bytes of the attachment carry a video signature
VideoBytes(file) == StartsWith(file.sniffed, <<"video/">>)

\* C21 (as claimed): an attachment whose bytes carry a video signature is
\* rejected with the video-unsupported reason, whatever its declared type and
\* its size
C21_VideoAlwaysUnsupported ==
    (cres # NoDecision /\ VideoBytes(cfile)) => cres.reason = "video-unsupported"

\* C21 (amended): an attachment whose bytes carry a video signature is never
\* posted, whatever its declared type and its size: it is rejected with the
\* video-unsupported reason when its size is within the configured limit, and
\* with the size-exceeded reason when it is larger
C21_VideoRejected ==
    (cres # NoDecision /\ VideoBytes(cfile)) =>
        /\ cres.method = ""
        /\ SizeOk(cfile) => cres.reason = "video-unsupported"
        /\ ~SizeOk(cfile) => cres.reason = "size-exceeded"

\* an attachment declared as an image whose bytes are those of a video was
\* rejected as a video
C21_Witness ==
    /\ VideoBytes(cfile) /\ cfile.declared = Png /\ SizeOk(cfile)
    /\ cres = [reason |-> "video-unsupported", method |-> ""]

\* the type that the file checks resolved for the attachment
Kind(file) == IF file.sniffed # NoMime THEN file.sniffed ELSE file.declared

\* C22: an accepted attachment is posted with sendPhoto when its resolved type
\* is an image type, with sendAudio when it is an audio type, and with
\* sendDocument otherwise, whatever its size and whatever the type that was
\* not resolved says; no attachment is posted with sendVideo
C22_PrimitiveByKind ==
    cres # NoDecision =>
        /\ cres.method # "sendVideo"
        /\ cres.reason = "none" =>
             cres.method = IF StartsWith(Kind(cfile), <<"image/">>) THEN "sendPhoto"
                           ELSE IF StartsWith(Kind(cfile), <<"audio/">>) THEN "sendAudio"
                           ELSE "sendDocument"

\* an attachment declared as a video whose bytes are those of an audio file
\* was accepted and goes out with sendAudio
C22_Witness ==
    /\ cfile.declared = Mp4 /\ cfile.sniffed = Mp3
    /\ cres = [reason |-> "none", method |-> "sendAudio"]

----------------------------------------------------------------------------
(* SpecVerify: verify applied to tokens and clock values from bounded sets *)

\* timestamps of the tokens handed to verify: 0..MaxTs seconds
MaxTs == 14

SignedTokens == {sign(ts) : ts \in 0..MaxTs}

TamperBytes == {"x", "0", "1"}

\* the token with one byte of its signature segment changed
TampersOf(t) == {TamperAt(t, i, b) : i \in 1..Len(t[2]), b \in TamperBytes} \ {t}

TamperedTokens == UNION {TampersOf(t) : t \in SignedTokens}

\* tokens that were not made by sign: no segment, no signature segment, no
\* timestamp, a third segment, a timestamp written with a leading zero
OddTokens ==
    {<<<<"x">>>>, <<Dec(12)>>, <<<<"x">>, Hmac(SIGNING_SECRET, Dec(12))>>,
     sign(12) \o <<<<"x">>>>, <<<<"0">> \o Dec(12), Hmac(SIGNING_SECRET, Dec(12))>>,
     <<Dec(12), <<>>>>}

VerifyTokens == SignedTokens \cup OddTokens \cup TamperedTokens

InitVerify ==
    /\ now \in Clock
    /\ env \in Envs
    /\ chan = Chan0
    /\ req = [r \in Reqs |-> Idle]
    /\ jar = NoCookie
    /\ deletes = 0
    /\ vtok \in VerifyTokens
    /\ vres = "none"
    /\ seen = NoInp
    /\ mtext = <<>>
    /\ mres = "pending"
    /\ cfile = NoFile
    /\ cres = NoDecision
    /\ penv = NoPenv
    /\ pv = NoPv
    /\ scratch = <<>>
    /\ cl = NoClient
    /\ conf = NoConfig

\* verify(token) at the current clock
VerifyApply ==
    /\ vres = "none"
    /\ vres' = verify(vtok, now, RATE_WINDOW_SECONDS)
    /\ UNCHANGED <<now, env, chan, req, jar, deletes, vtok, seen, mtext, mres, cfile, cres, penv, pv, scratch,
                   cl, conf>>

\* another token arrives at another time
VerifyPick ==
    /\ vres # "none"
    /\ vtok' \in VerifyTokens
    /\ now' \in Clock
    /\ vres' = "none"
    /\ UNCHANGED <<env, chan, req, jar, deletes, seen, mtext, mres, cfile, cres, penv, pv, scratch,
                   cl, conf>>

NextVerify == VerifyApply \/ VerifyPick

SpecVerify == InitVerify /\ [][NextVerify]_vars

\* the token is what sign makes for some timestamp
IsSigned(token) ==
    \E ts \in 0..MaxTs : token = <<Dec(ts), Hmac(SIGNING_SECRET, Dec(ts))>>

\* C9: for a correctly signed token, verify answers rate-limited exactly when
\* the clock is less than the window past the token's timestamp; at exactly
\* the window, and later, it does not
C9_WindowBoundary ==
    (vres # "none" /\ IsSigned(vtok)) =>
        (vres = "rate" <=> now - IssuedAt(vtok) * 1000 < RATE_WINDOW_SECONDS * 1000)

\* a correctly signed token was verified exactly one window after its timestamp
C9_Witness ==
    /\ vres = "ok" /\ IsSigned(vtok)
    /\ now - IssuedAt(vtok) * 1000 = RATE_WINDOW_SECONDS * 1000

\* the token has a timestamp that is not zero and a signature segment
WellFormed(token) ==
    /\ Len(token) >= 2
    /\ ParseInt(token[1]) \notin {NaN, 0}
    /\ token[2] # <<>>

\* the signature segment is the HMAC of the token's timestamp
SigMatches(token) ==
    /\ Len(token) >= 2
    /\ ParseInt(token[1]) # NaN
    /\ token[2] = Hmac(SIGNING_SECRET, Dec(ParseInt(token[1])))

C11_SignedIsValid ==
    (vres # "none" /\ IsSigned(vtok)) => vres \notin {"bad", "sig"}

----------------------------------------------------------------------------
(* SpecLegacy: the earlier submit handler (netlify/functions/submit.ts),    *)
(* which reads the last published cu-<N> and posts with the prefix          *)
(* cu-<N+1>, without any edit                                               *)

RATE_LIMIT_MINUTES == 1

\* whether the token begins, or ends, with a word character of a regular
\* expression ([A-Za-z0-9_])
StartsWord(c) == IsDigit(c) \/ c \in {"a", "cu-", "http://", "https://", "www."}
EndsWord(c) == IsDigit(c) \/ c = "a"

\* text.match(/\bcu-(\d+)\b/i) at position i of the text
CuAt(text, i) ==
    /\ text[i] = "cu-"
    /\ i = 1 \/ ~EndsWord(text[i - 1])
    /\ DigitRun(text, i + 1) > 0
    /\ LET j == i + DigitRun(text, i + 1)
       IN j + 1 > Len(text) \/ ~StartsWord(text[j + 1])

\* the number of the first match of /\bcu-(\d+)\b/i in the text, NaN when
\* there is none
RECURSIVE CuMatchFrom(_, _)
CuMatchFrom(text, i) ==
    IF i > Len(text) THEN NaN
    ELSE IF CuAt(text, i) THEN NumVal(text, i + 1, i + DigitRun(text, i + 1))
    ELSE CuMatchFrom(text, i + 1)

\* the loop of computeNextCounter over the updates, newest first: the number
\* of the newest message that carries a cu-<N> with N not 0; 0 when none does
RECURSIVE LastCounter(_, _)
LastCounter(updates, i) ==
    IF i < 1 THEN 0
    ELSE IF CuMatchFrom(updates[i].text, 1) \notin {NaN, 0}
         THEN CuMatchFrom(updates[i].text, 1)
    ELSE LastCounter(updates, i - 1)

\* computeNextCounter: last + 1 || 1, for the updates that getUpdates returned
\* (none when its answer is not ok or cannot be read)
computeNextCounterOldest(updates) ==
    LET hits == {k \in 1..Len(updates) : CuMatchFrom(updates[k].text, 1) \notin {NaN, 0}}
    IN IF hits = {} THEN 1
       ELSE CuMatchFrom(updates[CHOOSE k \in hits : \A m \in hits : k <= m].text, 1) + 1
computeNextCounter(updates) == LastCounter(updates, Len(updates)) + 1

\* `${finalPrefix}\n\n${captionBase}` or `${finalPrefix}`
LegacyPostBody(q) == FinalText(q.cu, CaptionBase(q))

\* the legacy handler from the rate check on: rejected by a gate, or ready to
\* compute the counter
LegacyAfterCaptcha(q, inp, nowMs) ==
    LET g == GateResponse(inp, nowMs, RATE_LIMIT_MINUTES * 60, FALSE)
    IN IF g # NoResp THEN Done(q, g)
       ELSE [q EXCEPT !.pc = "count", !.inp = NoInp, !.text = inp.text,
                      !.method = PostMethod(inp.file)]

LegacyArrive(q, inp, nowMs, e) ==
    IF EarlyResponse(inp, e) # NoResp THEN Done(q, EarlyResponse(inp, e))
    ELSE IF CaptchaPlan(e, inp.token) = "ok" THEN LegacyAfterCaptcha(q, inp, nowMs)
    ELSE Done(q, CaptchaFailed(e))

LegacyArrivals(held, nowMs, e) == {LegacyArrive(Idle, inp, nowMs, e) : inp \in Inputs(held)}

LegacyStart(r) ==
    /\ req[r].pc = "idle"
    /\ \A i \in 1..Len(ReqOrder) :
         ReqOrder[i] = r => \A j \in 1..(i - 1) : req[ReqOrder[j]].pc # "idle"
    /\ \E q \in LegacyArrivals(jar, now, env) : req' = [req EXCEPT ![r] = q]
    /\ UNCHANGED <<now, env, chan, jar, deletes, vtok, vres, seen, mtext, mres, cfile, cres, penv, pv, scratch,
                   cl, conf>>

\* computeNextCounter: getUpdates answers with the channel's posts, or with
\* nothing usable; id records how many posts the request has read
LegacyCount(r) ==
    /\ req[r].pc = "count"
    /\ \E readable \in BOOLEAN :
         LET updates == IF readable THEN chan ELSE <<>>
         IN req' = [req EXCEPT ![r] = [@ EXCEPT !.pc = "post", !.id = Len(updates),
                                                 !.cu = computeNextCounter(updates)]]
    /\ UNCHANGED <<now, env, chan, jar, deletes, vtok, vres, seen, mtext, mres, cfile, cres, penv, pv, scratch,
                   cl, conf>>

\* tgApi('sendMessage' | 'sendPhoto' | ...) with the prefixed text
LegacyPost(r) ==
    /\ req[r].pc = "post"
    /\ \E a \in GenericFailures \cup {AnswerOk} :
         LET q == req[r]
             c == Call(q.method, Undefined, LegacyPostBody(q), Undefined, a)
             msg == tgApi(q.method, a)
         IN /\ chan' = IF a = AnswerOk
                       THEN Append(chan, [text |-> Stored(LegacyPostBody(q)),
                                          reply |-> Undefined, method |-> q.method,
                                          owner |-> r, deleted |-> FALSE])
                       ELSE chan
            /\ req' = [req EXCEPT ![r] =
                          IF msg = NoMsg
                          THEN [q EXCEPT !.pc = "persist", !.calls = Append(@, c)]
                          ELSE Done([q EXCEPT !.calls = Append(@, c)],
                                    Resp(502, "Telegram error"))]
    /\ UNCHANGED <<now, env, jar, deletes, vtok, vres, seen, mtext, mres, cfile, cres, penv, pv, scratch,
                   cl, conf>>

\* getChat and setChatDescription, best effort (the description is written
\* and, computeNextCounter returning at least 1, never read), then the 200
\* response with the fresh token
LegacyPersist(r) ==
    /\ req[r].pc = "persist"
    /\ \E a \in GenericFailures \cup {AnswerOk} :
         LET q == req[r]
             c == Call("setChatDescription", Undefined, Dec(q.cu), Undefined, a)
         IN /\ req' = [req EXCEPT ![r] = Done([q EXCEPT !.calls = Append(@, c)],
                                              Accepted(now))]
            /\ jar' = Kept(jar, Accepted(now))
    /\ UNCHANGED <<now, env, chan, deletes, vtok, vres, seen, mtext, mres, cfile, cres, penv, pv, scratch,
                   cl, conf>>

NextLegacy ==
    \/ \E r \in Reqs : LegacyStart(r)
    \/ \E r \in Reqs : LegacyCount(r)
    \/ \E r \in Reqs : LegacyPost(r)
    \/ \E r \in Reqs : LegacyPersist(r)

\* the clock stands still and nothing is deleted: the earlier handler never
\* refers to a message of the channel, and its rate check is not at issue
SpecLegacy == Init /\ [][NextLegacy]_vars

\* the number that the newest of the first n channel messages displays, 0
\* when n is 0
LastShown(n) == IF n = 0 THEN 0 ELSE ShownId(chan[n].text)

\* C7: in the earlier handler a request publishes its message with cu-<N+1>,
\* N the last number published when the request read the channel, whatever
\* was published between its read and its post; so two requests that read
\* the same last value publish two messages with the same cu-<N+1>
C7_LegacySameNumber ==
    /\ \A r \in Reqs : \A i \in Owned(r) :
         ShownId(chan[i].text) = LastShown(req[r].id) + 1
    /\ \A r1, r2 \in Reqs : \A i1 \in Owned(r1) : \A i2 \in Owned(r2) :
         req[r1].id = req[r2].id => ShownId(chan[i1].text) = ShownId(chan[i2].text)

\* two accepted requests that both read cu-1 as the last number have published
\* two different messages that both display cu-2
C7_Witness ==
    /\ req["r1"].resp.status = 200 /\ req["r2"].resp.status = 200
    /\ req["r1"].id = 1 /\ req["r2"].id = 1
    /\ \E i1 \in Owned("r1") : \E i2 \in Owned("r2") :
         /\ i1 # i2
         /\ ShownId(chan[i1].text) = 2 /\ ShownId(chan[i2].text) = 2

----------------------------------------------------------------------------
(* Properties of the reported window (SpecWindow) *)

\* the age of the client's token in milliseconds
TokenAge == now - WindowIssued * 1000

\* C33: for every setting of RATE_LIMIT_SECONDS and RATE_LIMIT_MINUTES, the
\* rate_limit_seconds that GET /config reports is the window that POST /submit
\* enforces: a request with the client's token is answered 429 exactly when
\* the token is younger than the reported number of seconds, by the submit
\* handler of config.ts and by the one of submit.ts.
C33_ReportedIsEnforced ==
    conf # NoConfig =>
        /\ (seen # NoInp /\ seen.cookie = jar) =>
              (req[ReqOrder[1]].resp.status = 429
                  <=> TokenAge < conf.rate_limit_seconds * 1000)
        /\ req[ReqOrder[2]].pc # "idle" =>
              (req[ReqOrder[2]].resp.status = 429
                  <=> TokenAge < conf.rate_limit_seconds * 1000)

====
